---------------------------- MODULE Spec2Model ----------------------------
(***************************************************************************)
(* Verification model of the fintech-app repository: the option-symbol     *)
(* parser, the Portfolio object with its JSON ledger, the strategy engine, *)
(* the covered-call monitor, GrokChat and the utility functions.  Money    *)
(* and prices are integers (whole dollars unless a comment says            *)
(* otherwise); strings that are parsed are sequences of one-character      *)
(* strings.                                                                *)
(***************************************************************************)
EXTENDS Integers, Sequences, FiniteSets, TLC

VARIABLES
    \* ---- symbol parser (pages/managePortfolio.py: parse_symbol) ----
    sym,            \* the string handed to parse_symbol
    parsed,         \* what parse_symbol returned (NotCalled before the call)
    \* ---- Portfolio (portfolio.py) and its ledger (database.py) ----
    shares,         \* Portfolio.shares
    cash,           \* Portfolio.cash
    positions,      \* Portfolio.positions, a list of dicts
    use_db,         \* Portfolio.use_db (self.db is a PortfolioDB iff TRUE)
    db,             \* the JSON document of PortfolioDB
    clock,          \* the wall clock in whole seconds (PortfolioDB._now)
    calls,          \* the add_position calls made so far, with their outcome
    cash0,          \* the cash the Portfolio was constructed with
    \* ---- strategy engine (strategy_engine.py) ----
    market,         \* price, RSI, 50-day MA, options chain, today's date
    config,         \* the loaded configuration (config.py)
    outcome,        \* what generate_recommendations did (NotCalled before)
    \* ---- covered-call monitor (covered_call_monitor.py) ----
    monitor,        \* the last call of the monitor's functions and its result
    smtp,           \* the SMTP sessions send_email_alert has run, in order
    \* ---- GrokChat (grok_chat.py) ----
    api_key,                \* GrokChat.api_key is set (TRUE) or empty (FALSE)
    conversation_history,   \* GrokChat.conversation_history
    chat,           \* the last GrokChat call, its request and its result
    \* ---- utilities (utils.py) ----
    util,           \* a call of a utility function: arguments and result
    tie_break,      \* which of several equal keys argsort puts first
    \* ---- PortfolioDB used on its own (database.py) ----
    dbcall,         \* the last PortfolioDB call, its number and its result
    returned_ids    \* the ids add_options_position has returned, in order

parserVars == <<sym, parsed>>
portfolioVars == <<shares, cash, positions, use_db, db, clock, calls, cash0>>
strategyVars == <<market, config, outcome>>
monitorVars == <<monitor, smtp>>
chatVars == <<api_key, conversation_history, chat>>
utilVars == <<util>>
tieVars == <<tie_break>>
ledgerVars == <<dbcall, returned_ids>>
vars == <<sym, parsed, shares, cash, positions, use_db, db, clock, calls,
          cash0, market, config, outcome, monitor, smtp, api_key,
          conversation_history, chat, util, tie_break, dbcall, returned_ids>>

\* No call made yet / Python's None.
NotCalled == [format |-> "not-called", kind |-> "not-called"]
None == [format |-> "none"]
\* No call of an object's methods made yet.
NoCall == [op |-> "none"]

(***************************************************************************)
(* Characters                                                              *)
(***************************************************************************)
UpperLetters ==
    {"A","B","C","D","E","F","G","H","I","J","K","L","M",
     "N","O","P","Q","R","S","T","U","V","W","X","Y","Z"}

LowerLetters ==
    {"a","b","c","d","e","f","g","h","i","j","k","l","m",
     "n","o","p","q","r","s","t","u","v","w","x","y","z"}

Alphabet == <<"A","B","C","D","E","F","G","H","I","J","K","L","M",
              "N","O","P","Q","R","S","T","U","V","W","X","Y","Z">>

LowerAlphabet == <<"a","b","c","d","e","f","g","h","i","j","k","l","m",
                   "n","o","p","q","r","s","t","u","v","w","x","y","z">>

DigitChars == <<"0","1","2","3","4","5","6","7","8","9">>

IsLetter(c) == c \in UpperLetters

IsDigit(c) == c \in {DigitChars[i] : i \in 1..10}

\* ord(c) - ord('A') for an upper-case letter.
LetterIndex(c) == (CHOOSE i \in 1..26 : Alphabet[i] = c) - 1

DigitVal(c) == (CHOOSE i \in 1..10 : DigitChars[i] = c) - 1

\* str.upper() and str.lower() on one character.
UpperChar(c) ==
    IF c \in LowerLetters
    THEN Alphabet[CHOOSE i \in 1..26 : LowerAlphabet[i] = c]
    ELSE c

LowerChar(c) ==
    IF c \in UpperLetters
    THEN LowerAlphabet[CHOOSE i \in 1..26 : Alphabet[i] = c]
    ELSE c

Upper(s) == [i \in 1..Len(s) |-> UpperChar(s[i])]

Lower(s) == [i \in 1..Len(s) |-> LowerChar(s[i])]

AllDigits(s) == \A i \in 1..Len(s) : IsDigit(s[i])

\* int(s) for a string of decimal digits.
RECURSIVE ParseInt(_)
ParseInt(s) ==
    IF Len(s) = 0 THEN 0
    ELSE 10 * ParseInt(SubSeq(s, 1, Len(s) - 1)) + DigitVal(s[Len(s)])

\* str(d) for one decimal digit d.
DigitOf(d) == DigitChars[d + 1]

\* A year as four decimal digits.
FormatYear(y) ==
    << DigitOf((y \div 1000) % 10), DigitOf((y \div 100) % 10),
       DigitOf((y \div 10) % 10), DigitOf(y % 10) >>

(***************************************************************************)
(* Symbol parser: parse_symbol(symbol).  Its file (pages/managePortfolio.py) *)
(* is not among the sources; it is modelled from the specification's        *)
(* "Recognized shapes / Output / Contract" and from test_symbol_parser.py.  *)
(***************************************************************************)

\* The year that year letter A stands for.
MERRILL_BASE_YEAR == 2026

\* The number of leading letters of s (the greedy match of [A-Z]+).
RECURSIVE LetterPrefixLen(_)
LetterPrefixLen(s) ==
    IF Len(s) = 0 \/ ~IsLetter(s[1]) THEN 0
    ELSE 1 + LetterPrefixLen(Tail(s))

\* Type letter to option type.
PosType(c) == IF c = "C" THEN "call" ELSE "put"

\* Mutant: the strike digits divided by 100.
StrikeFromDigits_Div100(ds) ==
    LET n == ParseInt(ds)
    IN  [units |-> n \div 100, thousandths |-> n % 100]

\* Strike digits divided by 1000, as a decimal with three places.
StrikeFromDigits(ds) ==
    LET n == ParseInt(ds)
    IN  [units |-> n \div 1000, thousandths |-> n % 1000]

\* Mutant: the year letter ignored.
MerrillYear_NoOffset(letter) == MERRILL_BASE_YEAR

\* Year letter to year: a fixed base year plus the letter's offset.
MerrillYear(letter) == MERRILL_BASE_YEAR + LetterIndex(letter)

\* The "MM-DD" that the four date digits of the broker form stand for.  The
\* only decoding on record is 3026 -> 01-30; every other code is kept
\* symbolic, as a value determined by the four digits alone.
MerrillMonthDay(ds) ==
    IF ds = <<"3","0","2","6">> THEN <<"0","1","-","3","0">>
    ELSE <<"m","d","(">> \o ds \o <<")">>

\* OCC shape: root, YYMMDD, C or P, 8 strike digits.
ParseOcc(u) ==
    LET n == LetterPrefixLen(u)
        rest == SubSeq(u, n + 1, Len(u))
    IN  IF /\ n >= 1
           /\ Len(rest) = 15
           /\ AllDigits(SubSeq(rest, 1, 6))
           /\ rest[7] \in {"C", "P"}
           /\ AllDigits(SubSeq(rest, 8, 15))
        THEN [root |-> SubSeq(u, 1, n),
              expiration |-> <<"2","0">> \o SubSeq(rest, 1, 2) \o <<"-">>
                             \o SubSeq(rest, 3, 4) \o <<"-">>
                             \o SubSeq(rest, 5, 6),
              pos_type |-> PosType(rest[7]),
              strike |-> StrikeFromDigits(SubSeq(rest, 8, 15)),
              format |-> "occ"]
        ELSE None

\* Mutant: any character accepted where the broker form has its '#'.
ParseMerrill_AnyDelimiter(u) ==
    LET n == LetterPrefixLen(u)
        rest == SubSeq(u, n + 1, Len(u))
    IN  IF /\ n >= 1
           /\ Len(rest) >= 8
           /\ IsLetter(rest[2])
           /\ AllDigits(SubSeq(rest, 3, 6))
           /\ rest[7] \in {"C", "P"}
           /\ AllDigits(SubSeq(rest, 8, Len(rest)))
        THEN [root |-> SubSeq(u, 1, n),
              expiration |-> FormatYear(MERRILL_BASE_YEAR + LetterIndex(rest[2]))
                             \o <<"-">> \o SubSeq(rest, 3, 6),
              pos_type |-> IF rest[7] = "C" THEN "call" ELSE "put",
              strike |-> [units |-> ParseInt(SubSeq(rest, 8, Len(rest))) \div 1000,
                          thousandths |-> ParseInt(SubSeq(rest, 8, Len(rest))) % 1000],
              format |-> "merrill"]
        ELSE None

\* Broker (Merrill) shape: root, '#', year letter, 4 date digits, C or P,
\* strike digits.
ParseMerrill(u) ==
    LET n == LetterPrefixLen(u)
        rest == SubSeq(u, n + 1, Len(u))
    IN  IF /\ n >= 1
           /\ Len(rest) >= 8
           /\ rest[1] = "#"
           /\ IsLetter(rest[2])
           /\ AllDigits(SubSeq(rest, 3, 6))
           /\ rest[7] \in {"C", "P"}
           /\ AllDigits(SubSeq(rest, 8, Len(rest)))
        THEN [root |-> SubSeq(u, 1, n),
              expiration |-> FormatYear(MerrillYear(rest[2])) \o <<"-">>
                             \o MerrillMonthDay(SubSeq(rest, 3, 6)),
              pos_type |-> PosType(rest[7]),
              strike |-> StrikeFromDigits(SubSeq(rest, 8, Len(rest))),
              format |-> "merrill"]
        ELSE None

\* Mutant: the input matched as it is written, without upper-casing.
parse_symbol_CaseSensitive(s) ==
    IF ParseOcc(s) # None THEN ParseOcc(s) ELSE ParseMerrill(s)

\* parse_symbol: case-insensitive; OCC first, then the broker form, else None.
parse_symbol(s) ==
    LET u == Upper(s)
        occ == ParseOcc(u)
    IN  IF occ # None THEN occ ELSE ParseMerrill(u)

\* ---- the inputs the parser is exercised on ----
Roots == { <<"T","S","L","A">>, <<"t","s","l","a">>, <<"F">>,
           <<"T","s","1","a">>, <<>> }

OccDates == { <<"2","6","0","2","2","7">>, <<"2","7","1","1","1","9">>,
              <<"2","6","0","2","2">> }

TypeChars == {"C", "P", "c", "p", "X"}

OccStrikes == { <<"0","0","4","5","5","0","0","0">>,
                <<"0","0","4","0","0","0","0","0">>,
                <<"0","0","0","1","2","5","0","0">>,
                <<"0","0","4","5","5","0","0">> }

YearLetters == {"A", "B", "a", "b", "D", "7"}

MerrillDates == { <<"3","0","2","6">>, <<"1","5","2","6">>, <<"3","0","2">> }

MerrillStrikes == { <<"4","7","5","0","0","0">>, <<"4","5","0","0","0","0">>,
                    <<"1","2","5","0","0">>, <<"4","7","A","0","0","0">>, <<>> }

OccInputs ==
    { r \o d \o <<t>> \o k :
        r \in Roots, d \in OccDates, t \in TypeChars, k \in OccStrikes }

MerrillInputs ==
    { r \o <<"#", y>> \o d \o <<t>> \o k :
        r \in Roots, y \in YearLetters, d \in MerrillDates,
        t \in TypeChars, k \in MerrillStrikes }

OtherInputs ==
    { <<>>,
      <<"I","N","V","A","L","I","D","_","F","O","R","M","A","T">>,
      <<"T","S","L","A">>,
      <<"#","A","3","0","2","6","C","4","7","5","0","0","0">>,
      <<"T","S","L","A","-","A","3","0","2","6","C","4","7","5","0","0","0">> }

SymbolInputs == OccInputs \cup MerrillInputs \cup OtherInputs

InitParser == sym \in SymbolInputs /\ parsed = NotCalled

IdleParser == sym = <<>> /\ parsed = NotCalled

\* result = parse_symbol(symbol)
ParseSymbolCall ==
    /\ parsed = NotCalled
    /\ parsed' = parse_symbol(sym)
    /\ UNCHANGED sym

(***************************************************************************)
(* PortfolioDB (database.py): a JSON document of four lists.  An optional  *)
(* value is <<>> for None and <<v>> for a value v.                         *)
(***************************************************************************)
NoneOpt == <<>>

Some(v) == <<v>>

Max(a, b) == IF a >= b THEN a ELSE b

Min(a, b) == IF a <= b THEN a ELSE b

Abs(a) == IF a >= 0 THEN a ELSE -a

\* _init_store: the document written when the file is missing.
EmptyStore ==
    [portfolio_snapshots |-> <<>>, transactions |-> <<>>,
     options_positions |-> <<>>, stock_positions |-> <<>>]

\* max(..., default=0) over the ids of the records.
RECURSIVE MaxId(_)
MaxId(records) ==
    IF Len(records) = 0 THEN 0
    ELSE Max(records[Len(records)].id,
             MaxId(SubSeq(records, 1, Len(records) - 1)))

\* Mutant: one more than the id of the first record.
next_id_AfterFirst(records) ==
    IF Len(records) = 0 THEN 1 ELSE records[1].id + 1

\* PortfolioDB._next_id
next_id(records) == MaxId(records) + 1

\* PortfolioDB.save_portfolio_snapshot
save_portfolio_snapshot(d, now, sh, ca, total_value) ==
    [d EXCEPT !.portfolio_snapshots =
        Append(@, [id |-> next_id(d.portfolio_snapshots), timestamp |-> now,
                   shares |-> sh, cash |-> ca, total_value |-> total_value,
                   notes |-> NoneOpt])]

\* PortfolioDB.add_transaction
add_transaction(d, now, trans_type, quantity, price, total_cost, strike, expiration, premium) ==
    [d EXCEPT !.transactions =
        Append(@, [id |-> next_id(d.transactions), timestamp |-> now,
                   type |-> trans_type, symbol |-> "TSLA",
                   quantity |-> quantity, price |-> price, strike |-> strike,
                   expiration |-> expiration, premium |-> premium,
                   total_cost |-> total_cost, notes |-> NoneOpt])]

\* PortfolioDB.add_options_position; the id it returns is
\* next_id(d.options_positions).
add_options_position(d, now, pos_type, action, strike, expiration, quantity, premium) ==
    [d EXCEPT !.options_positions =
        Append(@, [id |-> next_id(d.options_positions), created_at |-> now,
                   updated_at |-> now, type |-> pos_type, action |-> action,
                   symbol |-> "TSLA", strike |-> strike,
                   expiration |-> expiration, quantity |-> quantity,
                   premium |-> premium, status |-> "open",
                   closed_at |-> NoneOpt, profit_loss |-> NoneOpt,
                   notes |-> NoneOpt])]

\* The index of the first stock position for the symbol, 0 when there is none.
StockIndex(d, symbol) ==
    IF \E i \in 1..Len(d.stock_positions) : d.stock_positions[i].symbol = symbol
    THEN CHOOSE i \in 1..Len(d.stock_positions) :
            /\ d.stock_positions[i].symbol = symbol
            /\ \A j \in 1..(i - 1) : d.stock_positions[j].symbol # symbol
    ELSE 0

\* PortfolioDB.update_stock_position; current_price is optional.
update_stock_position(d, now, symbol, quantity, avg_cost, current_price) ==
    LET i == StockIndex(d, symbol)
        total_value == IF current_price # NoneOpt
                       THEN quantity * current_price[1]
                       ELSE quantity * avg_cost
    IN  IF i > 0
        THEN [d EXCEPT !.stock_positions[i] =
                [@ EXCEPT !.updated_at = now, !.quantity = quantity,
                          !.avg_cost = avg_cost,
                          !.current_price = current_price,
                          !.total_value = total_value]]
        ELSE [d EXCEPT !.stock_positions =
                Append(@, [id |-> next_id(d.stock_positions),
                           created_at |-> now, updated_at |-> now,
                           symbol |-> symbol, quantity |-> quantity,
                           avg_cost |-> avg_cost,
                           current_price |-> current_price,
                           total_value |-> total_value, notes |-> NoneOpt])]

\* PortfolioDB.get_stock_position: optional record.
get_stock_position(d, symbol) ==
    IF StockIndex(d, symbol) > 0
    THEN Some(d.stock_positions[StockIndex(d, symbol)])
    ELSE NoneOpt

\* PortfolioDB.get_latest_portfolio_snapshot: list.sort(reverse=True) is
\* stable, so among the snapshots with the greatest timestamp the one stored
\* first comes first.
get_latest_portfolio_snapshot(d) ==
    LET snaps == d.portfolio_snapshots
    IN  IF Len(snaps) = 0 THEN NoneOpt
        ELSE Some(snaps[CHOOSE i \in 1..Len(snaps) :
                    /\ \A j \in 1..Len(snaps) :
                          snaps[j].timestamp <= snaps[i].timestamp
                    /\ \A j \in 1..(i - 1) :
                          snaps[j].timestamp < snaps[i].timestamp])

(***************************************************************************)
(* Portfolio (portfolio.py)                                                *)
(***************************************************************************)

\* How many Portfolio method calls a behaviour makes.
MaxCalls == 2

\* Mutant: the intrinsic value of a put computed like that of a call.
PositionValue_PutAsCall(pos, current_price) ==
    Max(current_price - pos.strike, 0) * pos.qty * 100
    + (pos.premium * pos.qty * 100) \div 2

\* One pass of the loop body of get_value: what position pos adds to
\* options_value.  premium * qty * 100 * 0.5 is exact: the product is even.
PositionValue(pos, current_price) ==
    LET intrinsic ==
            IF pos.type = "call"
            THEN Max(current_price - pos.strike, 0) * pos.qty * 100
            ELSE Max(pos.strike - current_price, 0) * pos.qty * 100
    IN  intrinsic + (pos.premium * pos.qty * 100) \div 2

\* The loop of get_value over self.positions, from the first position on.
RECURSIVE OptionsValue(_, _)
OptionsValue(ps, current_price) ==
    IF Len(ps) = 0 THEN 0
    ELSE PositionValue(ps[1], current_price)
         + OptionsValue(Tail(ps), current_price)

\* Portfolio.get_value(current_price)
get_value(sh, ca, ps, current_price) ==
    sh * current_price + ca + OptionsValue(ps, current_price)

\* cost = premium * qty * 100
PositionCost(premium, qty) == premium * qty * 100

\* Mutant: the premium of one share, not the cost, compared with the cash.
InsufficientCash_PerShare(action, cost, ca) ==
    action = "buy" /\ cost \div 100 > ca

\* The guard of add_position that raises ValueError.
InsufficientCash(action, cost, ca) == action = "buy" /\ cost > ca

\* Mutant: a purchase credited instead of debited.
CashAfter_BuyCredits(action, cost, ca) == ca + cost

\* self.cash after add_position.
CashAfter(action, cost, ca) == IF action = "buy" THEN ca - cost ELSE ca + cost

\* ---- the arguments the Portfolio is exercised with ----
PositionKinds ==
    { [type |-> "call", strike |-> 180], [type |-> "call", strike |-> 250],
      [type |-> "put", strike |-> 220] }

Premiums == {3, 5}

Quantities == {1, 2}

Actions == {"buy", "sell"}

Expirations == { NoneOpt, Some("2026-02-27") }

InitialCash == {0, 500, 1000}

InitialShares == {100}

SharePrices == {200}

NewShares == {50, 200}

\* Portfolio.__init__: shares and cash as given, then as the ledger has them.
PortfolioShares(sh, d, with_db) ==
    LET latest == get_latest_portfolio_snapshot(d)
        stock_pos == get_stock_position(d, "TSLA")
        s1 == IF with_db /\ latest # NoneOpt THEN latest[1].shares ELSE sh
    IN  IF with_db /\ stock_pos # NoneOpt THEN stock_pos[1].quantity ELSE s1

PortfolioCash(ca, d, with_db) ==
    LET latest == get_latest_portfolio_snapshot(d)
    IN  IF with_db /\ latest # NoneOpt THEN latest[1].cash ELSE ca

\* A Portfolio constructed over a ledger file that did not exist yet.
InitPortfolio ==
    /\ use_db \in BOOLEAN
    /\ db = EmptyStore
    /\ clock = 0
    /\ \E sh \in InitialShares, ca \in InitialCash :
          /\ shares = PortfolioShares(sh, db, use_db)
          /\ cash = PortfolioCash(ca, db, use_db)
          /\ cash0 = cash
    /\ positions = <<>>
    /\ calls = <<>>

IdlePortfolio ==
    /\ use_db = FALSE /\ db = EmptyStore /\ clock = 0
    /\ shares = 0 /\ cash = 0 /\ cash0 = 0
    /\ positions = <<>> /\ calls = <<>>

\* Portfolio.add_position(pos_type, strike, premium, qty, expiration, action,
\* save_to_db).  A call that raises changes nothing; `calls` records it.
AddPosition(pos_type, strike, premium, qty, expiration, action, save_to_db) ==
    LET cost == PositionCost(premium, qty)
        entry == [op |-> "add_position", action |-> action,
                  pos_type |-> pos_type, strike |-> strike,
                  premium |-> premium, qty |-> qty]
        saved == save_to_db /\ use_db /\ expiration # NoneOpt
        position_data ==
            [type |-> pos_type, strike |-> strike, premium |-> premium,
             qty |-> qty,
             db_id |-> IF saved THEN Some(next_id(db.options_positions))
                       ELSE NoneOpt]
        db1 == add_options_position(db, clock, pos_type, action, strike,
                                    expiration[1], qty, premium)
        db2 == add_transaction(db1, clock, <<action, pos_type>>, qty, premium,
                               IF action = "buy" THEN cost ELSE -cost,
                               Some(strike), expiration, Some(premium))
    IN  /\ Len(calls) < MaxCalls
        /\ IF InsufficientCash(action, cost, cash)
           THEN /\ calls' = Append(calls, entry @@ [raised |-> "ValueError"])
                /\ UNCHANGED <<shares, cash, positions, db>>
           ELSE /\ cash' = CashAfter(action, cost, cash)
                /\ positions' = Append(positions, position_data)
                /\ db' = IF saved THEN db2 ELSE db
                /\ calls' = Append(calls, entry @@ [raised |-> "no"])
                /\ UNCHANGED shares
        /\ UNCHANGED <<use_db, clock, cash0>>

\* Portfolio.update_shares(new_shares, current_price, save_to_db);
\* current_price is optional.
UpdateShares(new_shares, current_price, save_to_db) ==
    LET price_or_0 == IF current_price # NoneOpt THEN current_price[1] ELSE 0
        diff == new_shares - shares
        db1 == update_stock_position(db, clock, "TSLA", new_shares, price_or_0,
                                     current_price)
        db2 == IF new_shares # shares
               THEN add_transaction(db1, clock,
                        IF diff > 0 THEN <<"buy", "stock">>
                        ELSE <<"sell", "stock">>,
                        Abs(diff), price_or_0, Abs(diff) * price_or_0,
                        NoneOpt, NoneOpt, NoneOpt)
               ELSE db1
        total_value == IF price_or_0 # 0
                       THEN get_value(new_shares, cash, positions, price_or_0)
                       ELSE 0
        db3 == save_portfolio_snapshot(db2, clock, new_shares, cash,
                                       total_value)
    IN  /\ Len(calls) < MaxCalls
        /\ shares' = new_shares
        /\ db' = IF save_to_db /\ use_db THEN db3 ELSE db
        /\ calls' = Append(calls, [op |-> "update_shares", raised |-> "no"])
        /\ UNCHANGED <<cash, positions, use_db, clock, cash0>>

\* Portfolio.save_snapshot(current_price)
SaveSnapshot(current_price) ==
    /\ Len(calls) < MaxCalls
    /\ db' = IF use_db
             THEN save_portfolio_snapshot(db, clock, shares, cash,
                      get_value(shares, cash, positions, current_price))
             ELSE db
    /\ calls' = Append(calls, [op |-> "save_snapshot", raised |-> "no"])
    /\ UNCHANGED <<shares, cash, positions, use_db, clock, cash0>>

AddPositionCall ==
    \E k \in PositionKinds, premium \in Premiums, qty \in Quantities,
       expiration \in Expirations, action \in Actions, save_to_db \in BOOLEAN :
        AddPosition(k.type, k.strike, premium, qty, expiration, action,
                    save_to_db)

UpdateSharesCall ==
    \E n \in NewShares, p \in {NoneOpt} \cup {Some(x) : x \in SharePrices},
       save_to_db \in BOOLEAN :
        UpdateShares(n, p, save_to_db)

SaveSnapshotCall == \E p \in SharePrices : SaveSnapshot(p)

(***************************************************************************)
(* Configuration (config.py)                                               *)
(***************************************************************************)

\* A dictionary key: the string "2025" and the integer 2025 are different
\* keys with the same digits.
StrKey(digits) == [kind |-> "str", digits |-> digits]

IntKey(digits) == [kind |-> "int", digits |-> digits]

\* _DEFAULT_CONFIG.  Money is in cents where the default is not a whole
\* dollar, ratios are in percent, OTM distances in thousandths.
DEFAULT_CONFIG ==
    [TSLA_SHARES |-> 525,
     CASH_AVAILABLE |-> 0,
     RISK_TOLERANCE_PCT |-> 5,
     EPS_PROJECTIONS |-> (StrKey("2025") :> 164 @@ StrKey("2026") :> 217
                          @@ StrKey("2030") :> 1124),
     BULLISH_THRESHOLD |-> 50,
     DIP_THRESHOLD |-> 30,
     OPTIONS_MIN_WEEKS |-> 2,
     OPTIONS_MAX_WEEKS |-> 4,
     ENABLE_COVERED_CALLS |-> TRUE,
     ENABLE_WHEEL_STRATEGY |-> TRUE,
     WHEEL_PUT_OTM_PCT |-> <<50, 75, 100>>,
     WHEEL_MIN_CASH_RATIO_PCT |-> 110]

\* The loop of _load_config over the EPS keys: int(key) of a string of
\* digits is the integer key with those digits.
NormalizeEps(eps) ==
    [k \in {IntKey(j.digits) : j \in DOMAIN eps} |->
        eps[CHOOSE j \in DOMAIN eps : j.digits = k.digits]]

\* _load_config.  file.kind is "absent" (no file), "invalid" (unreadable or
\* not JSON), "not_object" (JSON that is no object) or "object", with
\* file.data the object's keys and values.
load_config(file) ==
    IF file.kind # "object" THEN DEFAULT_CONFIG
    ELSE LET merged == file.data @@ DEFAULT_CONFIG
         IN  [merged EXCEPT !.EPS_PROJECTIONS = NormalizeEps(@)]

\* ---- the configuration files the model is exercised with ----
EmptyObject == [x \in {} |-> 0]

ConfigFiles ==
    { [kind |-> "absent", data |-> EmptyObject],
      [kind |-> "invalid", data |-> EmptyObject],
      [kind |-> "not_object", data |-> EmptyObject],
      [kind |-> "object", data |-> EmptyObject],
      [kind |-> "object", data |-> [ENABLE_COVERED_CALLS |-> FALSE]],
      [kind |-> "object", data |-> [ENABLE_WHEEL_STRATEGY |-> FALSE]],
      [kind |-> "object", data |-> [DIP_THRESHOLD |-> 65]],
      [kind |-> "object", data |-> [WHEEL_MIN_CASH_RATIO_PCT |-> 50]] }

(***************************************************************************)
(* Indicator utilities (utils.py)                                          *)
(***************************************************************************)

\* round(n / d) for d > 0: to the nearest integer, a tie to the even one.
RoundHalfEven(n, d) ==
    LET q == n \div d
        r == n % d
    IN  IF 2 * r < d THEN q
        ELSE IF 2 * r > d THEN q + 1
        ELSE IF q % 2 = 0 THEN q ELSE q + 1

\* The rows at the least distance from the strike.
ClosestRows(df, strike) ==
    { i \in 1..Len(df) :
        \A j \in 1..Len(df) :
            Abs(df[i].strike - strike) <= Abs(df[j].strike - strike) }

\* Mutant: the row farthest from the strike.
ClosestRow_Farthest(df, strike) ==
    CHOOSE i \in 1..Len(df) :
        \A j \in 1..Len(df) :
            Abs(df[i].strike - strike) >= Abs(df[j].strike - strike)

\* The index of the row argsort puts first: a row at the least distance to
\* the strike.  Series.argsort() sorts with kind='quicksort', which is not
\* a stable sort: which of several rows at the same distance comes first
\* is up to the build of the library, here the earliest or the latest.
ClosestRow(df, strike) ==
    LET rows == ClosestRows(df, strike)
    IN  IF tie_break = "earliest"
        THEN CHOOSE i \in rows : \A j \in rows : i <= j
        ELSE CHOOSE i \in rows : \A j \in rows : i >= j

\* The orders of equal keys a build of argsort may produce.
TieBreaks == {"earliest", "latest"}

InitTies == tie_break \in TieBreaks

IdleTies == tie_break = "earliest"

\* estimate_premium(option_data, strike, is_call)
estimate_premium(option_data, strike, is_call) ==
    LET df == IF is_call THEN option_data.calls ELSE option_data.puts
    IN  IF Len(df) = 0 THEN 0 ELSE df[ClosestRow(df, strike)].lastPrice

\* int(n / d) for d > 0: the quotient truncated toward zero.
IntPart(n, d) == IF n >= 0 THEN n \div d ELSE -((-n) \div d)

\* Mutant: the quotient rounded up.
risk_adjusted_qty_RoundUp(portfolio_value, premium, risk_tolerance_pct) ==
    IF premium <= 0 THEN 0
    ELSE -IntPart(-(portfolio_value * risk_tolerance_pct) - (premium * 100 * 100 - 1),
                  premium * 100 * 100)

\* risk_adjusted_qty(portfolio_value, premium, risk_tolerance): int() of
\* (value * tolerance) / (premium * 100); the tolerance is in percent.
risk_adjusted_qty(portfolio_value, premium, risk_tolerance_pct) ==
    IF premium <= 0 THEN 0
    ELSE IntPart(portfolio_value * risk_tolerance_pct, premium * 100 * 100)

\* P/E ratio assumed by project_yield.
PE_RATIO == 300

\* eps * (1 + rate) ** years, eps in hundredths of a cent and the rate in
\* percent; each year's product is cut to a whole hundredth of a cent.
RECURSIVE Grow(_, _, _)
Grow(eps, rate_pct, years) ==
    IF years = 0 THEN eps
    ELSE Grow((eps * (100 + rate_pct)) \div 100, rate_pct, years - 1)

\* project_yield(current_price, eps_growth_rate, years): the yield in
\* hundredths of a percent (rounded down), or KeyError when
\* EPS_PROJECTIONS has no integer key 2025.  The growth rate is in percent,
\* the EPS in cents and the price in dollars.
project_yield(eps, current_price, eps_growth_pct, years) ==
    IF IntKey("2025") \notin DOMAIN eps
    THEN [kind |-> "raised", error |-> "KeyError"]
    ELSE LET future_eps == Grow(eps[IntKey("2025")] * 100, eps_growth_pct,
                                years)
             future_price == future_eps * PE_RATIO
             \* (future_price - current_price) / current_price * 100 / years
         IN  [kind |-> "returned",
              value |-> (future_price - current_price * 10000)
                        \div (current_price * years)]

(***************************************************************************)
(* Strategy engine (strategy_engine.py).  market is                        *)
(*   [price, rsi, ma50, options_data, now]:                                *)
(* rsi and ma50 are optional numbers, <<>> standing for NaN (every         *)
(* comparison with NaN is false); options_data is the dictionary's items   *)
(* in order, each [date, calls, puts] with date a day number; now is the   *)
(* day number of datetime.now(), whose time of day is past midnight.       *)
(***************************************************************************)

\* a > b and a < b for an optional (NaN-able) a.
Gt(a, b) == a # NoneOpt /\ a[1] > b

Lt(a, b) == a # NoneOpt /\ a[1] < b

RECURSIVE Flatten(_)
Flatten(ss) == IF Len(ss) = 0 THEN <<>> ELSE Head(ss) \o Flatten(Tail(ss))

\* The OTM distances of the covered-call loop, in thousandths.
COVERED_CALL_OTM == <<50, 75, 100>>

\* round(base * (1 + otm)) and round(base * (1 - otm)), otm in thousandths.
StrikeAbove(base, otm) == RoundHalfEven(base * (1000 + otm), 1000)

StrikeBelow(base, otm) == RoundHalfEven(base * (1000 - otm), 1000)

\* (exp_date - datetime.now()).days
DaysToExp(date, now) == date - now - 1

\* _calculate_annualized_yield, in hundredths of a percent as round(.., 2)
\* of the caller leaves it.
calculate_annualized_yield(premium, current_price, date, now) ==
    LET days_to_exp == DaysToExp(date, now)
    IN  IF days_to_exp > 0
        THEN RoundHalfEven(premium * 365 * 100 * 100,
                           current_price * days_to_exp)
        ELSE 0

\* Mutant: one contract per full 100 shares, without the cap.
CoveredCallQty_NoCap(sh) == sh \div 100

\* qty of a covered-call recommendation.
CoveredCallQty(sh) == Min(sh \div 100, 10)

\* One pass of the inner loop of generate_covered_call_recommendations.
CoveredCallStep(m, sh, opts, otm) ==
    LET strike == StrikeAbove(m.price, otm)
        premium == estimate_premium(opts, strike, TRUE)
        qty == CoveredCallQty(sh)
    IN  IF premium > 0
        THEN << [strategy |-> "Covered Calls",
                 action |-> "Sell Covered Call",
                 expiration |-> opts.date,
                 strike |-> strike,
                 premium |-> premium,
                 qty |-> qty,
                 total_premium |-> qty * 100 * premium,
                 annualized_yield_pct |->
                     calculate_annualized_yield(premium, m.price, opts.date,
                                                m.now),
                 rationale |-> [text |-> "Generate income", otm |-> otm,
                                rsi |-> m.rsi]] >>
        ELSE <<>>

\* generate_covered_call_recommendations
generate_covered_call_recommendations(m, sh) ==
    IF sh >= 100
    THEN Flatten([k \in 1..(Len(m.options_data) * Len(COVERED_CALL_OTM)) |->
            CoveredCallStep(m, sh,
                m.options_data[((k - 1) \div Len(COVERED_CALL_OTM)) + 1],
                COVERED_CALL_OTM[((k - 1) % Len(COVERED_CALL_OTM)) + 1])])
    ELSE <<>>

\* int(portfolio.cash / (put_strike * 100 * WHEEL_MIN_CASH_RATIO)) for cash
\* that is not negative.
WheelMaxContracts(ca, put_strike, ratio_pct) ==
    (ca * 100) \div (put_strike * 100 * ratio_pct)

\* One pass of the inner loop of generate_wheel_strategy_recommendations.
WheelStep(m, cfg, sh, ca, opts, otm) ==
    LET put_strike == StrikeBelow(m.price, otm)
        put_premium == estimate_premium(opts, put_strike, FALSE)
        max_contracts ==
            WheelMaxContracts(ca, put_strike, cfg.WHEEL_MIN_CASH_RATIO_PCT)
        qty == Min(max_contracts, 10)
        total_premium == qty * 100 * put_premium
        assignment_cost == put_strike * 100 * qty
        cc_strike == RoundHalfEven(put_strike * 105, 100)
        cc_premium == estimate_premium(opts, cc_strike, TRUE)
        cc_total_premium == qty * 100 * cc_premium
        total_wheel_income == total_premium + cc_total_premium
        put_rec ==
            [strategy |-> "Wheel Strategy",
             action |-> "Sell Cash-Secured Put",
             expiration |-> opts.date,
             strike |-> put_strike,
             premium |-> put_premium,
             qty |-> qty,
             total_premium |-> total_premium,
             required_cash |-> put_strike * 100 * qty,
             break_even_price |-> put_strike - put_premium,
             annualized_yield_pct |->
                 calculate_annualized_yield(put_premium, m.price, opts.date,
                                            m.now),
             rationale |-> [text |-> "Phase 1", otm |-> otm, rsi |-> m.rsi]]
        cc_rec ==
            [strategy |-> "Wheel Strategy",
             action |-> "After Assignment: Sell Covered Call",
             expiration |-> opts.date,
             strike |-> cc_strike,
             premium |-> cc_premium,
             qty |-> qty,
             total_premium |-> cc_total_premium,
             annualized_yield_pct |->
                 calculate_annualized_yield(cc_premium, put_strike, opts.date,
                                            m.now),
             total_wheel_income |-> total_wheel_income,
             total_wheel_yield_pct |->
                 IF assignment_cost > 0
                 THEN RoundHalfEven(total_wheel_income * 100 * 100,
                                    assignment_cost)
                 ELSE 0,
             rationale |-> [text |-> "Phase 2", otm |-> otm, rsi |-> m.rsi]]
    IN  IF put_premium > 0 /\ max_contracts > 0
        THEN IF sh + qty * 100 >= 100 /\ cc_premium > 0
             THEN <<put_rec, cc_rec>>
             ELSE <<put_rec>>
        ELSE <<>>

\* generate_wheel_strategy_recommendations
generate_wheel_strategy_recommendations(m, cfg, sh, ca) ==
    LET otms == cfg.WHEEL_PUT_OTM_PCT
    IN  Flatten([k \in 1..(Len(m.options_data) * Len(otms)) |->
            WheelStep(m, cfg, sh, ca,
                      m.options_data[((k - 1) \div Len(otms)) + 1],
                      otms[((k - 1) % Len(otms)) + 1])])

\* The condition of the "Buy Call" branch.
BullishSignal(m, cfg) ==
    Lt(m.ma50, m.price) /\ Gt(m.rsi, cfg.BULLISH_THRESHOLD)

\* Mutant: an RSI at the threshold counted as a dip.
DipSignal_Inclusive(m, cfg) ==
    m.rsi # NoneOpt /\ m.rsi[1] <= cfg.DIP_THRESHOLD

\* The condition of the "Buy Put" branch.
DipSignal(m, cfg) == Lt(m.rsi, cfg.DIP_THRESHOLD)

\* qty of a speculative recommendation for one expiration.
SpeculativeQty(m, cfg, sh, ca, ps, opts, is_call) ==
    LET strike == IF is_call THEN RoundHalfEven(m.price * 105, 100)
                  ELSE RoundHalfEven(m.price * 95, 100)
        premium == estimate_premium(opts, strike, is_call)
    IN  risk_adjusted_qty(get_value(sh, ca, ps, m.price), premium,
                          cfg.RISK_TOLERANCE_PCT)

\* One pass of the "Buy Call" loop, for a quantity above 0.
BuyCallStep(m, cfg, sh, ca, ps, opts) ==
    LET strike == RoundHalfEven(m.price * 105, 100)
        premium == estimate_premium(opts, strike, TRUE)
        qty == SpeculativeQty(m, cfg, sh, ca, ps, opts, TRUE)
        proj_yield == project_yield(cfg.EPS_PROJECTIONS, m.price, 33, 1)
    IN  [strategy |-> "Speculative",
         action |-> "Buy Call",
         expiration |-> opts.date,
         strike |-> strike,
         premium |-> premium,
         qty |-> qty,
         \* qty * 100 * max(price * 1.1 - strike - premium, 0)
         proj_profit |->
             qty * 10 * Max(m.price * 11 - strike * 10 - premium * 10, 0),
         rationale |-> [text |-> "Bullish signal", rsi |-> m.rsi,
                        proj_yield |-> proj_yield.value]]

\* Mutant: the put struck 5 percent above the price.
BuyPutStep_StrikeAbove(m, cfg, sh, ca, ps, opts) ==
    LET strike == RoundHalfEven(m.price * 105, 100)
        premium == estimate_premium(opts, RoundHalfEven(m.price * 95, 100), FALSE)
        qty == SpeculativeQty(m, cfg, sh, ca, ps, opts, FALSE)
    IN  [action |-> "Buy Put",
         expiration |-> opts.date,
         strike |-> strike,
         premium |-> premium,
         qty |-> qty,
         proj_profit |->
             qty * 10 * Max(strike * 10 - m.price * 9 - premium * 10, 0),
         rationale |-> [text |-> "Dip detected", rsi |-> m.rsi]]

\* One pass of the "Buy Put" loop, for a quantity above 0.
BuyPutStep(m, cfg, sh, ca, ps, opts) ==
    LET strike == RoundHalfEven(m.price * 95, 100)
        premium == estimate_premium(opts, strike, FALSE)
        qty == SpeculativeQty(m, cfg, sh, ca, ps, opts, FALSE)
    IN  [action |-> "Buy Put",
         expiration |-> opts.date,
         strike |-> strike,
         premium |-> premium,
         qty |-> qty,
         \* qty * 100 * max(strike - price * 0.9 - premium, 0)
         proj_profit |->
             qty * 10 * Max(strike * 10 - m.price * 9 - premium * 10, 0),
         rationale |-> [text |-> "Dip detected", rsi |-> m.rsi]]

\* The expirations, in order, for which a speculative loop appends.
SpeculativeDates(m, cfg, sh, ca, ps, is_call) ==
    SelectSeq(m.options_data,
              LAMBDA opts : SpeculativeQty(m, cfg, sh, ca, ps, opts, is_call) > 0)

\* generate_recommendations: the list it returns, or the exception that
\* leaves it.  project_yield is called in the first "Buy Call" pass whose
\* quantity is above 0; its KeyError is not caught.
generate_recommendations(m, cfg, sh, ca, ps) ==
    LET covered == IF cfg.ENABLE_COVERED_CALLS
                   THEN generate_covered_call_recommendations(m, sh)
                   ELSE <<>>
        wheel == IF cfg.ENABLE_WHEEL_STRATEGY
                 THEN generate_wheel_strategy_recommendations(m, cfg, sh, ca)
                 ELSE <<>>
        call_dates == IF BullishSignal(m, cfg)
                      THEN SpeculativeDates(m, cfg, sh, ca, ps, TRUE)
                      ELSE <<>>
        put_dates == IF DipSignal(m, cfg)
                     THEN SpeculativeDates(m, cfg, sh, ca, ps, FALSE)
                     ELSE <<>>
    IN  IF /\ Len(call_dates) > 0
           /\ project_yield(cfg.EPS_PROJECTIONS, m.price, 33, 1).kind = "raised"
        THEN [kind |-> "raised", error |-> "KeyError"]
        ELSE [kind |-> "returned",
              recs |-> covered \o wheel
                  \o [i \in 1..Len(call_dates) |->
                        BuyCallStep(m, cfg, sh, ca, ps, call_dates[i])]
                  \o [i \in 1..Len(put_dates) |->
                        BuyPutStep(m, cfg, sh, ca, ps, put_dates[i])]]

\* ---- the market data and portfolios the engine is exercised with ----
MarketPrices == {200}

RsiValues == { NoneOpt, Some(25), Some(30), Some(50), Some(60) }

MaValues == { NoneOpt, Some(190), Some(210) }

CallTables ==
    { <<>>,
      << [strike |-> 210, lastPrice |-> 0], [strike |-> 220, lastPrice |-> 6] >>,
      << [strike |-> 200, lastPrice |-> 10], [strike |-> 210, lastPrice |-> 8],
         [strike |-> 220, lastPrice |-> 6] >> }

PutTables ==
    { << [strike |-> 190, lastPrice |-> 0] >>,
      << [strike |-> 180, lastPrice |-> 2], [strike |-> 190, lastPrice |-> 3],
         [strike |-> 200, lastPrice |-> 4] >> }

\* The first and the second expiration date and today's date, as day numbers.
ExpirationDays == <<40, 70>>

Todays == {10, 45}

Chains(date) ==
    { [date |-> date, calls |-> c, puts |-> p] :
        c \in CallTables, p \in PutTables }

OptionsData ==
    { <<>> } \cup { <<a>> : a \in Chains(ExpirationDays[1]) }
    \cup { <<a, b>> : a \in Chains(ExpirationDays[1]),
                      b \in Chains(ExpirationDays[2]) }

StrategyShares == {50, 100, 525, 1100}

StrategyCash == {0, 15000, 250000}

StrategyPositions ==
    { <<>>,
      << [type |-> "call", strike |-> 180, premium |-> 5, qty |-> 1,
          db_id |-> NoneOpt] >> }

InitStrategy ==
    /\ market \in [price : MarketPrices, rsi : RsiValues, ma50 : MaValues,
                   options_data : OptionsData, now : Todays]
    /\ \E file \in ConfigFiles : config = load_config(file)
    /\ outcome = NotCalled

IdleStrategy ==
    /\ market = [price |-> 200, rsi |-> NoneOpt, ma50 |-> NoneOpt,
                 options_data |-> <<>>, now |-> 10]
    /\ config = DEFAULT_CONFIG
    /\ outcome = NotCalled

\* A Portfolio(shares, cash, use_db=False), as the engine's tests build it,
\* with or without a position added.
InitStrategyPortfolio ==
    /\ use_db = FALSE /\ db = EmptyStore /\ clock = 0
    /\ shares \in StrategyShares
    /\ cash \in StrategyCash
    /\ cash0 = cash
    /\ positions \in StrategyPositions
    /\ calls = <<>>

\* recs = generate_recommendations(historical_data, options_data, portfolio,
\* current_info)
GenerateRecommendationsCall ==
    /\ outcome = NotCalled
    /\ outcome' = generate_recommendations(market, config, shares, cash,
                                           positions)
    /\ UNCHANGED <<market, config>>

(***************************************************************************)
(* Covered-call monitor (covered_call_monitor.py).  Prices are whole       *)
(* dollars, dte is a number of days (negative after the expiration).       *)
(***************************************************************************)

\* The default thresholds of check_alert_conditions.
DEFAULT_PRICE_THRESHOLD == 460

DEFAULT_DTE_THRESHOLD == 7

\* Mutant: a price or a dte at its threshold alerts too.
check_alert_conditions_Inclusive(current_price, dte, price_threshold, dte_threshold) ==
    [should_alert |-> current_price >= price_threshold \/ dte <= dte_threshold,
     reasons |->
        (IF current_price >= price_threshold
         THEN << [kind |-> "price", value |-> current_price,
                  threshold |-> price_threshold] >>
         ELSE <<>>)
        \o (IF dte <= dte_threshold
            THEN << [kind |-> "dte", value |-> dte,
                     threshold |-> dte_threshold] >>
            ELSE <<>>)]

\* check_alert_conditions: (should_alert, reasons).  A reason is the text
\* the code formats, kept as the values it is formatted from.
check_alert_conditions(current_price, dte, price_threshold, dte_threshold) ==
    LET price_hit == current_price > price_threshold
        dte_hit == dte < dte_threshold
    IN  [should_alert |-> IF dte_hit THEN TRUE
                          ELSE IF price_hit THEN TRUE ELSE FALSE,
         reasons |->
            (IF price_hit
             THEN << [kind |-> "price", value |-> current_price,
                      threshold |-> price_threshold] >>
             ELSE <<>>)
            \o (IF dte_hit
                THEN << [kind |-> "dte", value |-> dte,
                         threshold |-> dte_threshold] >>
                ELSE <<>>)]

\* get_monitor_data, for a price and a dte that were fetched: the fields
\* the alert depends on.
get_monitor_data(current_price, dte) ==
    LET checked == check_alert_conditions(current_price, dte,
                                          DEFAULT_PRICE_THRESHOLD,
                                          DEFAULT_DTE_THRESHOLD)
    IN  [current_price |-> current_price,
         dte |-> dte,
         should_alert |-> checked.should_alert,
         alert_reasons |-> checked.reasons]

\* The calls send_email_alert makes on the SMTP server inside its with
\* block, in order.
SMTP_STEPS == <<"connect", "starttls", "login", "send_message">>

StepIndex(step) == CHOOSE i \in 1..Len(SMTP_STEPS) : SMTP_STEPS[i] = step

\* Mutant: a step that raises does not stop the later ones.
SmtpSteps_KeepGoing(fail) ==
    IF fail = "build" THEN <<>>
    ELSE [i \in 1..Len(SMTP_STEPS) |->
            [step |-> SMTP_STEPS[i],
             result |-> IF SMTP_STEPS[i] = fail THEN "raised" ELSE "ok"]]

\* The steps of the try block that run when `fail` is the one that raises:
\* "none" for no step, "build" for the construction of the MIME message,
\* which precedes the connection.
SmtpSteps(fail) ==
    IF fail = "build" THEN <<>>
    ELSE IF fail = "none"
    THEN [i \in 1..Len(SMTP_STEPS) |-> [step |-> SMTP_STEPS[i], result |-> "ok"]]
    ELSE [i \in 1..StepIndex(fail) |->
            [step |-> SMTP_STEPS[i],
             result |-> IF i < StepIndex(fail) THEN "ok" ELSE "raised"]]

\* send_email_alert: the session it runs and the value it returns.  Once
\* the connection is made the with block is left through SMTP.__exit__,
\* which sends QUIT: env.quit is "ok", "disconnected" (SMTPServerDisconnected,
\* which __exit__ swallows) or "raised" (any other failure of QUIT, which
\* leaves __exit__ as an exception).  Every exception is caught and turned
\* into False.
send_email_alert(env) ==
    LET steps == SmtpSteps(env.fail)
        entered == Len(steps) > 0 /\ steps[1].result = "ok"
        body_ok == env.fail = "none"
        exit == IF entered THEN << [step |-> "quit", result |-> env.quit] >>
                ELSE <<>>
    IN  [steps |-> steps \o exit,
         returned |-> IF body_ok /\ env.quit # "raised" THEN TRUE ELSE FALSE]

\* Mutant: the alert is mailed whatever should_alert says.
MonitorSends_Always(data) == TRUE

\* send_monitor_alert goes on to send_email_alert.
MonitorSends(data) == data.should_alert

\* ---- the prices, days, thresholds and SMTP servers it is run with ----
AlertPrices == {459, 460, 461}

AlertDtes == {-1, 6, 7, 8}

AlertThresholds == { <<DEFAULT_PRICE_THRESHOLD, DEFAULT_DTE_THRESHOLD>>, <<459, 8>> }

SmtpEnvs ==
    [fail : {"none", "build", "connect", "starttls", "login", "send_message"},
     quit : {"ok", "disconnected", "raised"}]

\* The longest run of SMTP sessions explored.
MaxSessions == 2

InitMonitor ==
    /\ monitor = NoCall
    /\ smtp = <<>>

IdleMonitor == InitMonitor

\* should_alert, reasons = check_alert_conditions(...)
CheckAlertConditionsCall ==
    \E current_price \in AlertPrices, dte \in AlertDtes, th \in AlertThresholds :
        /\ monitor' = [op |-> "check_alert_conditions",
                       args |-> <<current_price, dte, th[1], th[2]>>,
                       result |-> check_alert_conditions(current_price, dte,
                                                         th[1], th[2])]
        /\ UNCHANGED smtp

\* send_email_alert(smtp_server, smtp_port, sender_email, sender_password,
\* recipient_email, subject, body)
SendEmailAlertCall ==
    /\ Len(smtp) < MaxSessions
    /\ \E env \in SmtpEnvs :
        LET sent == send_email_alert(env)
        IN  /\ smtp' = Append(smtp, sent)
            /\ monitor' = [op |-> "send_email_alert",
                           before |-> Len(smtp),
                           result |-> [kind |-> "returned",
                                       value |-> sent.returned]]

\* send_monitor_alert(smtp_server, smtp_port, sender_email, sender_password,
\* recipient_email).  fetched is FALSE when get_monitor_data raises (the
\* quote cannot be fetched), which leaves send_monitor_alert as an exception.
SendMonitorAlert(fetched, current_price, dte, env) ==
    IF ~fetched
    THEN /\ monitor' = [op |-> "send_monitor_alert", data |-> <<>>,
                        before |-> Len(smtp),
                        result |-> [kind |-> "raised", value |-> FALSE]]
         /\ UNCHANGED smtp
    ELSE LET data == get_monitor_data(current_price, dte)
             sent == send_email_alert(env)
         IN  IF ~MonitorSends(data)
             THEN /\ monitor' = [op |-> "send_monitor_alert",
                                 data |-> <<data>>,
                                 before |-> Len(smtp),
                                 result |-> [kind |-> "returned",
                                             value |-> FALSE]]
                  /\ UNCHANGED smtp
             ELSE /\ smtp' = Append(smtp, sent)
                  /\ monitor' = [op |-> "send_monitor_alert",
                                 data |-> <<data>>,
                                 before |-> Len(smtp),
                                 result |-> [kind |-> "returned",
                                             value |-> sent.returned]]

SendMonitorAlertCall ==
    /\ Len(smtp) < MaxSessions
    /\ \E fetched \in BOOLEAN, current_price \in AlertPrices, dte \in AlertDtes,
          env \in SmtpEnvs :
        SendMonitorAlert(fetched, current_price, dte, env)

(***************************************************************************)
(* GrokChat (grok_chat.py).  A message content is a record [kind, text]:   *)
(* the kind says which string the code built, the text what it was built   *)
(* from.                                                                   *)
(***************************************************************************)

\* GrokChat.system_message
SYSTEM_MESSAGE ==
    [role |-> "system",
     content |-> [kind |-> "system", text |-> "expert Financial Advisor"]]

\* The default_model of the constructor.
DEFAULT_MODEL == "grok-4-0709"

\* conversation_history[-9:]
HISTORY_WINDOW == 9

LastN(h, n) == IF Len(h) <= n THEN h ELSE SubSeq(h, Len(h) - n + 1, Len(h))

UserMessage(user_input) ==
    [role |-> "user", content |-> [kind |-> "input", text |-> user_input]]

\* _call_xai_api(user_input, model), called with the history as prompt left
\* it: the request it posts, and the string it returns or the exception
\* that leaves it.  api is what the endpoint does: "reply" (status 200 with
\* a choice whose content is a string), "no_choices" (status 200 without
\* choices), "http_error" (another status), "network_error" (requests
\* raises a RequestException) or "exception" (anything else raises, such as
\* a body of another shape).
call_xai_api(history, user_input, model, api) ==
    LET messages == <<SYSTEM_MESSAGE>> \o LastN(history, HISTORY_WINDOW)
                    \o <<UserMessage(user_input)>>
        payload == [model |-> model, messages |-> messages]
    IN  [request |-> payload,
         result |->
            CASE api = "reply" ->
                    [kind |-> "returned",
                     value |-> [kind |-> "reply", text |-> "advice"]]
              [] api = "no_choices" ->
                    [kind |-> "returned",
                     value |-> [kind |-> "no_response", text |-> ""]]
              [] api = "http_error" ->
                    [kind |-> "returned",
                     value |-> [kind |-> "api_error", text |-> "500"]]
              [] api = "network_error" ->
                    [kind |-> "returned",
                     value |-> [kind |-> "network_error", text |-> ""]]
              [] OTHER ->
                    [kind |-> "raised",
                     value |-> [kind |-> "exception", text |-> ""]]]

\* Mutant: an exception of the API call leaves prompt.
prompt_NoCatch(history, key, user_input, model, api) ==
    LET h1 == Append(history, UserMessage(user_input))
        called == call_xai_api(h1, user_input,
                               IF model = <<>> THEN DEFAULT_MODEL ELSE model[1],
                               api)
        response ==
            IF key THEN called.result.value
            ELSE [kind |-> "mock", text |-> user_input]
    IN  IF key /\ called.result.kind = "raised"
        THEN [history |-> h1, request |-> <<called.request>>,
              result |-> called.result]
        ELSE [history |-> Append(h1, [role |-> "assistant", content |-> response]),
              request |-> IF key THEN <<called.request>> ELSE <<>>,
              result |-> [kind |-> "returned", value |-> response]]

\* GrokChat.prompt(user_input, model): the history it leaves, the request it
\* posted (none in mock mode) and what it returns.  model is <<>> for None.
prompt(history, key, user_input, model, api) ==
    LET h1 == Append(history, UserMessage(user_input))
        called == call_xai_api(h1, user_input,
                               IF model = <<>> THEN DEFAULT_MODEL ELSE model[1],
                               api)
        response ==
            IF key
            THEN IF called.result.kind = "raised"
                 THEN [kind |-> "error_calling", text |-> ""]
                 ELSE called.result.value
            ELSE [kind |-> "mock", text |-> user_input]
    IN  [history |-> Append(h1, [role |-> "assistant", content |-> response]),
         request |-> IF key THEN <<called.request>> ELSE <<>>,
         result |-> [kind |-> "returned", value |-> response]]

\* ---- the prompts, models and API behaviours it is run with ----
UserInputs == {"hello", "roll?"}

PromptModels == { <<>>, <<"grok-3">> }

ApiOutcomes ==
    {"reply", "no_choices", "http_error", "network_error", "exception"}

\* The longest conversation history explored.
MaxHistory == 10

\* GrokChat(api_key=...) and GrokChat() without XAI_API_KEY
InitChat ==
    /\ api_key \in BOOLEAN
    /\ conversation_history = <<>>
    /\ chat = NoCall

IdleChat ==
    /\ api_key = FALSE
    /\ conversation_history = <<>>
    /\ chat = NoCall

\* response = chat.prompt(user_input, model)
PromptCall ==
    /\ Len(conversation_history) + 2 <= MaxHistory
    /\ \E user_input \in UserInputs, model \in PromptModels, api \in ApiOutcomes :
        LET done == prompt(conversation_history, api_key, user_input, model, api)
        IN  /\ conversation_history' = done.history
            /\ chat' = [op |-> "prompt", input |-> user_input, model |-> model,
                        before |-> conversation_history,
                        request |-> done.request, result |-> done.result]
    /\ UNCHANGED api_key

\* chat.clear_history()
ClearHistoryCall ==
    /\ conversation_history' = <<>>
    /\ chat' = [op |-> "clear_history", input |-> "", model |-> <<>>,
                before |-> conversation_history, request |-> <<>>,
                result |-> [kind |-> "returned",
                            value |-> [kind |-> "none", text |-> ""]]]
    /\ UNCHANGED api_key

(***************************************************************************)
(* Calls of the utility functions (utils.py)                               *)
(***************************************************************************)
QtyValues == {-1000, 0, 999, 1000, 10000, 50000, 100000}

QtyPremiums == {-1, 0, 1, 3, 5, 100}

QtyTolerances == {0, 5, 10}

InitUtils == util = NoCall

IdleUtils == InitUtils

\* qty = risk_adjusted_qty(portfolio_value, premium, risk_tolerance)
RiskAdjustedQtyCall ==
    \E value \in QtyValues, premium \in QtyPremiums, tol \in QtyTolerances :
        util' = [op |-> "risk_adjusted_qty",
                 args |-> <<value, premium, tol>>,
                 result |-> risk_adjusted_qty(value, premium, tol)]

\* ---- the tables and strikes estimate_premium is called with ----
PremiumTables ==
    { <<>>,
      << [strike |-> 200, lastPrice |-> 10], [strike |-> 210, lastPrice |-> 8],
         [strike |-> 220, lastPrice |-> 6], [strike |-> 230, lastPrice |-> 4] >>,
      << [strike |-> 220, lastPrice |-> 6], [strike |-> 210, lastPrice |-> 8],
         [strike |-> 200, lastPrice |-> 10] >>,
      << [strike |-> 210, lastPrice |-> 3], [strike |-> 210, lastPrice |-> 7] >> }

PremiumStrikes == {190, 210, 214, 215, 216, 240}

\* premium = estimate_premium(option_data, strike, is_call)
EstimatePremiumCall ==
    \E calls_df \in PremiumTables, puts_df \in PremiumTables,
       strike \in PremiumStrikes, is_call \in BOOLEAN :
        util' = [op |-> "estimate_premium",
                 args |-> <<[calls |-> calls_df, puts |-> puts_df], strike,
                            is_call>>,
                 result |-> estimate_premium([calls |-> calls_df,
                                              puts |-> puts_df],
                                             strike, is_call)]

\* The growth rates (percent) and horizons project_yield is called with.
YieldGrowths == {10, 33}

YieldYears == {1, 5}

\* The configuration is loaded when config.py is imported, whatever
\* data/config.json is then; project_yield(current_price, eps_growth_rate,
\* years) reads the EPS_PROJECTIONS so loaded.
ProjectYieldCall ==
    \E file \in ConfigFiles, price \in MarketPrices, growth \in YieldGrowths,
       years \in YieldYears :
        util' = [op |-> "project_yield",
                 args |-> <<file, price, growth, years>>,
                 result |-> project_yield(load_config(file).EPS_PROJECTIONS,
                                          price, growth, years)]

(***************************************************************************)
(* PortfolioDB used on its own (database.py): the remaining operations and *)
(* the calls made on a store that starts empty.                            *)
(***************************************************************************)

\* The statuses after which update_options_position sets closed_at.
CLOSING_STATUSES == {"closed", "assigned", "expired"}

\* The index of the first options position with the id, 0 when there is none.
OptionIndex(d, position_id) ==
    IF \E i \in 1..Len(d.options_positions) :
            d.options_positions[i].id = position_id
    THEN CHOOSE i \in 1..Len(d.options_positions) :
            /\ d.options_positions[i].id = position_id
            /\ \A j \in 1..(i - 1) : d.options_positions[j].id # position_id
    ELSE 0

\* PortfolioDB.update_options_position; profit_loss and notes are optional.
update_options_position(d, now, position_id, status, profit_loss, notes) ==
    LET i == OptionIndex(d, position_id)
    IN  IF i = 0 THEN d
        ELSE [d EXCEPT !.options_positions[i] =
                [@ EXCEPT !.status = status,
                          !.updated_at = now,
                          !.profit_loss = IF profit_loss # NoneOpt
                                          THEN profit_loss ELSE @,
                          !.closed_at = IF status \in CLOSING_STATUSES
                                        THEN Some(now) ELSE @,
                          !.notes = IF notes # NoneOpt THEN notes ELSE @]]

\* Mutant: the position stored first is deleted, whatever its id.
delete_options_position_First(d, position_id) ==
    IF Len(d.options_positions) > 0
    THEN [store |-> [d EXCEPT !.options_positions = Tail(@)], result |-> TRUE]
    ELSE [store |-> d, result |-> FALSE]

\* PortfolioDB.delete_options_position: the store it leaves and the value
\* it returns.
delete_options_position(d, position_id) ==
    LET kept == SelectSeq(d.options_positions,
                          LAMBDA p : p.id # position_id)
    IN  IF Len(kept) < Len(d.options_positions)
        THEN [store |-> [d EXCEPT !.options_positions = kept], result |-> TRUE]
        ELSE [store |-> d, result |-> FALSE]

\* list.sort(key=(expiration, strike)), a stable sort, for positions whose
\* expirations are equal: p is put behind the positions that do not come
\* after it.
RECURSIVE SortByStrike(_)
SortByStrike(ps) ==
    IF Len(ps) = 0 THEN <<>>
    ELSE LET sorted == SortByStrike(SubSeq(ps, 1, Len(ps) - 1))
             p == ps[Len(ps)]
         IN  SelectSeq(sorted, LAMBDA q : q.strike <= p.strike)
             \o <<p>>
             \o SelectSeq(sorted, LAMBDA q : q.strike > p.strike)

\* PortfolioDB.get_open_options_positions
get_open_options_positions(d, symbol) ==
    SortByStrike(SelectSeq(d.options_positions,
                           LAMBDA p : p.symbol = symbol /\ p.status = "open"))

\* ---- the arguments PortfolioDB is exercised with ----
DbShares == {100, 200}

DbStrikes == {210, 220}

DbStatuses == {"open", "closed", "assigned", "expired"}

DbProfits == { NoneOpt, Some(50) }

\* The ids handed to update_options_position and delete_options_position.
DbIds == {1, 2}

\* How many PortfolioDB calls a behaviour makes.
MaxDbCalls == 3

NoDbCall == [n |-> 0, op |-> "none"]

\* PortfolioDB(db_path) over a file that does not exist yet: _init_store.
InitLedger ==
    /\ dbcall = NoDbCall
    /\ returned_ids = <<>>

IdleLedger == InitLedger

\* A store of its own, without a Portfolio object.
InitLedgerStore ==
    /\ use_db = TRUE /\ db = EmptyStore /\ clock = 0
    /\ shares = 0 /\ cash = 0 /\ cash0 = 0
    /\ positions = <<>> /\ calls = <<>>

\* _now(): the call is made in the second of the previous call or in the
\* next one.
Nows == {clock, clock + 1}

DbUnchanged == UNCHANGED <<shares, cash, positions, use_db, calls, cash0>>

\* db.save_portfolio_snapshot(shares, cash, total_value)
SavePortfolioSnapshotCall ==
    /\ dbcall.n < MaxDbCalls
    /\ \E now \in Nows, sh \in DbShares :
        /\ db' = save_portfolio_snapshot(db, now, sh, 1000, sh * 200 + 1000)
        /\ clock' = now
        /\ dbcall' = [n |-> dbcall.n + 1, op |-> "save_portfolio_snapshot",
                      args |-> <<sh>>, result |-> NoneOpt]
    /\ UNCHANGED returned_ids
    /\ DbUnchanged

\* db.add_transaction(trans_type, symbol, quantity, price, total_cost)
AddTransactionCall ==
    /\ dbcall.n < MaxDbCalls
    /\ \E now \in Nows :
        /\ db' = add_transaction(db, now, <<"buy", "stock">>, 10, 200, 2000,
                                 NoneOpt, NoneOpt, NoneOpt)
        /\ clock' = now
        /\ dbcall' = [n |-> dbcall.n + 1, op |-> "add_transaction",
                      args |-> <<10>>, result |-> NoneOpt]
    /\ UNCHANGED returned_ids
    /\ DbUnchanged

\* position_id = db.add_options_position(pos_type, action, strike,
\* expiration, quantity, premium)
AddOptionsPositionCall ==
    /\ dbcall.n < MaxDbCalls
    /\ \E now \in Nows, strike \in DbStrikes :
        /\ db' = add_options_position(db, now, "call", "sell", strike,
                                      "2026-02-27", 1, 5)
        /\ clock' = now
        /\ dbcall' = [n |-> dbcall.n + 1, op |-> "add_options_position",
                      args |-> <<strike>>,
                      result |-> Some(next_id(db.options_positions))]
        /\ returned_ids' = Append(returned_ids, next_id(db.options_positions))
    /\ DbUnchanged

\* db.update_options_position(position_id, status, profit_loss)
UpdateOptionsPositionCall ==
    /\ dbcall.n < MaxDbCalls
    /\ \E now \in Nows, position_id \in DbIds, status \in DbStatuses,
          profit_loss \in DbProfits :
        /\ db' = update_options_position(db, now, position_id, status,
                                         profit_loss, NoneOpt)
        /\ clock' = now
        /\ dbcall' = [n |-> dbcall.n + 1, op |-> "update_options_position",
                      args |-> <<position_id, status>>, result |-> NoneOpt]
    /\ UNCHANGED returned_ids
    /\ DbUnchanged

\* deleted = db.delete_options_position(position_id)
DeleteOptionsPositionCall ==
    /\ dbcall.n < MaxDbCalls
    /\ \E position_id \in DbIds :
        LET done == delete_options_position(db, position_id)
        IN  /\ db' = done.store
            /\ dbcall' = [n |-> dbcall.n + 1, op |-> "delete_options_position",
                          args |-> <<position_id>>,
                          result |-> Some(done.result)]
    /\ UNCHANGED <<clock, returned_ids>>
    /\ DbUnchanged

\* db.update_stock_position(symbol, quantity, avg_cost, current_price)
UpdateStockPositionCall ==
    /\ dbcall.n < MaxDbCalls
    /\ \E now \in Nows, quantity \in DbShares :
        /\ db' = update_stock_position(db, now, "TSLA", quantity, 200,
                                       Some(200))
        /\ clock' = now
        /\ dbcall' = [n |-> dbcall.n + 1, op |-> "update_stock_position",
                      args |-> <<quantity>>, result |-> NoneOpt]
    /\ UNCHANGED returned_ids
    /\ DbUnchanged

(***************************************************************************)
(* Specifications                                                          *)
(***************************************************************************)
NextParser ==
    ParseSymbolCall
    /\ UNCHANGED <<portfolioVars, strategyVars, monitorVars, chatVars, utilVars, tieVars, ledgerVars>>

InitParserSpec ==
    InitParser /\ IdlePortfolio /\ IdleStrategy /\ IdleMonitor /\ IdleChat
    /\ IdleUtils /\ IdleTies /\ IdleLedger

SpecParser == InitParserSpec /\ [][NextParser]_vars

NextPortfolio ==
    /\ \/ AddPositionCall
       \/ UpdateSharesCall
       \/ SaveSnapshotCall
    /\ UNCHANGED <<parserVars, strategyVars, monitorVars, chatVars, utilVars, tieVars, ledgerVars>>

InitPortfolioSpec ==
    IdleParser /\ InitPortfolio /\ IdleStrategy /\ IdleMonitor /\ IdleChat
    /\ IdleUtils /\ IdleTies /\ IdleLedger

SpecPortfolio == InitPortfolioSpec /\ [][NextPortfolio]_vars

NextStrategy ==
    GenerateRecommendationsCall
    /\ UNCHANGED <<parserVars, portfolioVars, monitorVars, chatVars, utilVars, tieVars, ledgerVars>>

InitStrategySpec ==
    IdleParser /\ InitStrategyPortfolio /\ InitStrategy /\ IdleMonitor
    /\ IdleChat /\ IdleUtils /\ InitTies /\ IdleLedger

SpecStrategy == InitStrategySpec /\ [][NextStrategy]_vars

NextMonitor ==
    /\ \/ CheckAlertConditionsCall
       \/ SendEmailAlertCall
       \/ SendMonitorAlertCall
    /\ UNCHANGED <<parserVars, portfolioVars, strategyVars, chatVars, utilVars, tieVars, ledgerVars>>

InitMonitorSpec ==
    IdleParser /\ IdlePortfolio /\ IdleStrategy /\ InitMonitor /\ IdleChat
    /\ IdleUtils /\ IdleTies /\ IdleLedger

SpecMonitor == InitMonitorSpec /\ [][NextMonitor]_vars

NextChat ==
    /\ \/ PromptCall
       \/ ClearHistoryCall
    /\ UNCHANGED <<parserVars, portfolioVars, strategyVars, monitorVars, utilVars, tieVars, ledgerVars>>

InitChatSpec ==
    IdleParser /\ IdlePortfolio /\ IdleStrategy /\ IdleMonitor /\ InitChat
    /\ IdleUtils /\ IdleTies /\ IdleLedger

SpecChat == InitChatSpec /\ [][NextChat]_vars

NextUtils ==
    /\ \/ RiskAdjustedQtyCall
       \/ EstimatePremiumCall
       \/ ProjectYieldCall
    /\ UNCHANGED <<parserVars, portfolioVars, strategyVars, monitorVars, chatVars, tieVars, ledgerVars>>

InitUtilsSpec ==
    IdleParser /\ IdlePortfolio /\ IdleStrategy /\ IdleMonitor /\ IdleChat
    /\ InitUtils /\ InitTies /\ IdleLedger

SpecUtils == InitUtilsSpec /\ [][NextUtils]_vars

NextDB ==
    /\ \/ SavePortfolioSnapshotCall
       \/ AddTransactionCall
       \/ AddOptionsPositionCall
       \/ UpdateOptionsPositionCall
       \/ DeleteOptionsPositionCall
       \/ UpdateStockPositionCall
    /\ UNCHANGED <<parserVars, strategyVars, monitorVars, chatVars, utilVars, tieVars>>

InitDBSpec ==
    IdleParser /\ InitLedgerStore /\ IdleStrategy /\ IdleMonitor /\ IdleChat
    /\ IdleUtils /\ IdleTies /\ InitLedger

SpecDB == InitDBSpec /\ [][NextDB]_vars

(***************************************************************************)
(* Claims about the symbol parser (checked under SpecParser)               *)
(***************************************************************************)

\* The two shapes, stated by position from the end of the string and
\* without regard to case.
IsAnyCaseLetter(c) == c \in UpperLetters \cup LowerLetters

IsTypeLetter(c) == c \in {"C", "P", "c", "p"}

OccShape(s) ==
    /\ Len(s) >= 16
    /\ \A i \in 1..(Len(s) - 15) : IsAnyCaseLetter(s[i])
    /\ \A i \in (Len(s) - 14)..(Len(s) - 9) : IsDigit(s[i])
    /\ IsTypeLetter(s[Len(s) - 8])
    /\ \A i \in (Len(s) - 7)..Len(s) : IsDigit(s[i])

\* The position of the '#' of a string of the broker shape, 0 for any other.
MerrillHash(s) ==
    IF \E h \in 2..(Len(s) - 7) :
          /\ s[h] = "#"
          /\ \A i \in 1..(h - 1) : IsAnyCaseLetter(s[i])
          /\ IsAnyCaseLetter(s[h + 1])
          /\ \A i \in (h + 2)..(h + 5) : IsDigit(s[i])
          /\ IsTypeLetter(s[h + 6])
          /\ \A i \in (h + 7)..Len(s) : IsDigit(s[i])
    THEN CHOOSE h \in 2..(Len(s) - 7) : s[h] = "#"
    ELSE 0

MerrillShape(s) == MerrillHash(s) > 0

\* The number a string of digits denotes, summed digit by digit.
RECURSIVE Pow(_, _)
Pow(b, e) == IF e = 0 THEN 1 ELSE b * Pow(b, e - 1)

RECURSIVE DecimalValue(_, _)
DecimalValue(s, i) ==
    IF i > Len(s) THEN 0
    ELSE DigitVal(s[i]) * Pow(10, Len(s) - i) + DecimalValue(s, i + 1)

TypeName(c) == IF c \in {"C", "c"} THEN "call" ELSE "put"

TSLA == <<"T","S","L","A">>

\* C1: parse_symbol never raises, and for every input that has neither the
\* OCC shape nor the broker shape (the empty string and INVALID_FORMAT
\* among them) it returns None.
C1_NoMatchIsNone ==
    parsed # NotCalled =>
        /\ parsed.format \in {"none", "occ", "merrill"}
        /\ (~OccShape(sym) /\ ~MerrillShape(sym)) => parsed = None

C1_Witness ==
    /\ parsed = None
    /\ sym = <<"I","N","V","A","L","I","D","_","F","O","R","M","A","T">>

\* C2: parse_symbol is case-insensitive: the lower-cased and the upper-cased
\* input give equal results, which is also the result for the input as
\* written.
C2_CaseInsensitive ==
    parsed # NotCalled =>
        /\ parse_symbol(Lower(sym)) = parse_symbol(Upper(sym))
        /\ parsed = parse_symbol(Upper(sym))

C2_Witness ==
    /\ parsed # NotCalled
    /\ parsed.format = "merrill"
    /\ sym = Lower(sym)
    /\ sym # Upper(sym)

\* C3: an OCC-style input root + YYMMDD + type letter + 8 strike digits gives
\* root, the ISO date 20YY-MM-DD, call for C and put for P, the strike
\* digits divided by 1000, and the format tag "occ".
C3_OccFields ==
    (parsed # NotCalled /\ OccShape(sym)) =>
        LET n == Len(sym) - 15
        IN  /\ parsed.format = "occ"
            /\ parsed.root = Upper(SubSeq(sym, 1, n))
            /\ parsed.expiration =
                 <<"2","0", sym[n + 1], sym[n + 2], "-", sym[n + 3], sym[n + 4],
                   "-", sym[n + 5], sym[n + 6]>>
            /\ parsed.pos_type = TypeName(sym[n + 7])
            /\ parsed.strike.units * 1000 + parsed.strike.thousandths
                 = DecimalValue(SubSeq(sym, n + 8, n + 15), 1)
            /\ parsed.strike.thousandths \in 0..999
            /\ sym = TSLA \o <<"2","6","0","2","2","7","C",
                               "0","0","4","5","5","0","0","0">>
                 => parsed = [root |-> TSLA,
                              expiration |-> <<"2","0","2","6","-","0","2",
                                               "-","2","7">>,
                              pos_type |-> "call",
                              strike |-> [units |-> 455, thousandths |-> 0],
                              format |-> "occ"]

C3_Witness ==
    /\ parsed # NotCalled
    /\ parsed.format = "occ"
    /\ parsed.pos_type = "put"
    /\ parsed.strike = [units |-> 12, thousandths |-> 500]

\* C4: a broker-style input root + '#' + year letter + date digits + type
\* letter + strike digits gives the format tag "merrill", the strike digits
\* divided by 1000, the type of the type letter, and an expiration whose
\* year is 2026 plus the letter's offset (A 2026, B 2027) and whose month
\* and day are those of any other input with the same date digits.
C4_MerrillFields ==
    (parsed # NotCalled /\ MerrillShape(sym)) =>
        LET h == MerrillHash(sym)
            digits == SubSeq(sym, h + 2, h + 5)
            other == parse_symbol(<<"X", "#", "A">> \o digits \o <<"P", "1">>)
        IN  /\ parsed.format = "merrill"
            /\ parsed.root = Upper(SubSeq(sym, 1, h - 1))
            /\ parsed.pos_type = TypeName(sym[h + 6])
            /\ parsed.strike.units * 1000 + parsed.strike.thousandths
                 = DecimalValue(SubSeq(sym, h + 7, Len(sym)), 1)
            /\ parsed.strike.thousandths \in 0..999
            /\ ParseInt(SubSeq(parsed.expiration, 1, 4))
                 = 2026 + LetterIndex(UpperChar(sym[h + 1]))
            /\ sym[h + 1] \in {"A", "a"}
                 => SubSeq(parsed.expiration, 1, 4) = <<"2","0","2","6">>
            /\ sym[h + 1] \in {"B", "b"}
                 => SubSeq(parsed.expiration, 1, 4) = <<"2","0","2","7">>
            /\ SubSeq(parsed.expiration, 5, Len(parsed.expiration))
                 = SubSeq(other.expiration, 5, Len(other.expiration))
            /\ digits = <<"3","0","2","6">>
                 => SubSeq(parsed.expiration, 5, Len(parsed.expiration))
                      = <<"-","0","1","-","3","0">>

C4_Witness ==
    /\ parsed # NotCalled
    /\ sym = TSLA \o <<"#","B","3","0","2","6","C","4","7","5","0","0","0">>
    /\ parsed = [root |-> TSLA,
                 expiration |-> <<"2","0","2","7","-","0","1","-","3","0">>,
                 pos_type |-> "call",
                 strike |-> [units |-> 475, thousandths |-> 0],
                 format |-> "merrill"]

(***************************************************************************)
(* Claims about Portfolio (checked under SpecPortfolio)                    *)
(***************************************************************************)

LastCall == calls[Len(calls)]

\* C5: add_position with action 'buy' whose cost premium * qty * 100 exceeds
\* the cash raises ValueError and leaves cash, positions, shares and the
\* ledger as they were before the call.
C5_InsufficientCashChangesNothing ==
    [][ ( /\ Len(calls') = Len(calls) + 1
          /\ calls'[Len(calls')].op = "add_position"
          /\ calls'[Len(calls')].action = "buy"
          /\ calls'[Len(calls')].premium * calls'[Len(calls')].qty * 100 > cash )
        => ( /\ calls'[Len(calls')].raised = "ValueError"
             /\ cash' = cash
             /\ positions' = positions
             /\ shares' = shares
             /\ db' = db ) ]_vars

C5_Witness ==
    /\ Len(calls) = 2
    /\ LastCall.op = "add_position"
    /\ LastCall.raised = "ValueError"
    /\ Len(positions) = 1
    /\ use_db

\* The add_position calls that did not raise, in call order.
SucceededCalls ==
    SelectSeq(calls, LAMBDA c : c.op = "add_position" /\ c.raised = "no")

RECURSIVE TotalCost(_)
TotalCost(cs) ==
    IF Len(cs) = 0 THEN 0
    ELSE cs[Len(cs)].premium * cs[Len(cs)].qty * 100
         + TotalCost(SubSeq(cs, 1, Len(cs) - 1))

OnlyBuys ==
    \A i \in 1..Len(calls) :
        calls[i].op = "add_position" /\ calls[i].action = "buy"

\* C6: after any sequence of add_position 'buy' calls on a Portfolio that
\* started with cash c0 >= 0, cash is c0 minus the sum of premium * qty * 100
\* over the calls that succeeded, positions holds one entry per successful
\* call in call order, and cash is not negative.
C6_BuysDebitCash ==
    (OnlyBuys /\ cash0 >= 0) =>
        /\ cash = cash0 - TotalCost(SucceededCalls)
        /\ cash >= 0
        /\ Len(positions) = Len(SucceededCalls)
        /\ \A i \in 1..Len(positions) :
              /\ positions[i].type = SucceededCalls[i].pos_type
              /\ positions[i].strike = SucceededCalls[i].strike
              /\ positions[i].premium = SucceededCalls[i].premium
              /\ positions[i].qty = SucceededCalls[i].qty

C6_Witness ==
    /\ OnlyBuys
    /\ Len(calls) = 2
    /\ Len(positions) = 2
    /\ positions[1] # positions[2]
    /\ cash = 0
    /\ cash0 = 1000

\* The prices at which the portfolio is valued in the claims.
ValuationPrices == {150, 200, 260}

\* What the claim gives for one position: intrinsic value plus half of
\* premium * qty * 100.
ClaimedPositionValue(pos, price) ==
    (IF pos.type = "call"
     THEN (IF price > pos.strike THEN price - pos.strike ELSE 0)
     ELSE (IF pos.strike > price THEN pos.strike - price ELSE 0))
        * pos.qty * 100
    + pos.premium * pos.qty * 50

RECURSIVE ClaimedOptionsValue(_, _)
ClaimedOptionsValue(n, price) ==
    IF n = 0 THEN 0
    ELSE ClaimedOptionsValue(n - 1, price)
         + ClaimedPositionValue(positions[n], price)

\* C7: get_value(price) is shares * price + cash + the sum over the held
\* positions of intrinsic + premium * qty * 100 / 2; with no positions it is
\* shares * price + cash.
C7_GetValue ==
    \A price \in ValuationPrices :
        /\ get_value(shares, cash, positions, price)
             = shares * price + cash
               + ClaimedOptionsValue(Len(positions), price)
        /\ positions = <<>>
             => get_value(shares, cash, positions, price)
                  = shares * price + cash

C7_Witness ==
    /\ Len(positions) = 2
    /\ positions[1].type = "put"
    /\ positions[2].type = "call"
    /\ positions[2].strike = 180
    /\ get_value(shares, cash, positions, 200) > shares * 200 + cash + 2000

(***************************************************************************)
(* Claims about the strategy engine (checked under SpecStrategy)           *)
(***************************************************************************)

Returned == outcome.kind = "returned"

HasAction(a) ==
    \E i \in 1..Len(outcome.recs) : outcome.recs[i].action = a

\* Some expiration has a positive estimated call premium at one of the
\* covered-call strikes (5, 7.5 and 10 percent above the price).
SomePositiveCallPremium ==
    \E i \in 1..Len(market.options_data), otm \in {50, 75, 100} :
        estimate_premium(market.options_data[i],
                         RoundHalfEven(market.price * (1000 + otm), 1000),
                         TRUE) > 0

CoveredCallCondition ==
    /\ config.ENABLE_COVERED_CALLS
    /\ shares >= 100
    /\ SomePositiveCallPremium

\* C8: generate_recommendations contains a 'Sell Covered Call' record if and
\* only if covered calls are enabled, at least 100 shares are held and some
\* expiration has a positive estimated call premium, whatever the RSI and
\* the moving average; with fewer than 100 shares there is none.
C8_CoveredCallIff ==
    outcome # NotCalled =>
        /\ (Returned /\ HasAction("Sell Covered Call")) <=> CoveredCallCondition
        /\ shares < 100 => (Returned /\ ~HasAction("Sell Covered Call"))

\* What remains of C8 when the call returns.
C8_CoveredCallIffWhenReturned ==
    (outcome # NotCalled /\ Returned) =>
        (HasAction("Sell Covered Call") <=> CoveredCallCondition)

\* C9 as stated: the qty of each 'Sell Covered Call' record is shares // 100.
C9_QtyIsSharesOver100 ==
    (outcome # NotCalled /\ Returned /\ shares >= 100) =>
        \A i \in 1..Len(outcome.recs) :
            outcome.recs[i].action = "Sell Covered Call"
                => outcome.recs[i].qty = shares \div 100

\* C9 as amended: the qty of each 'Sell Covered Call' record is shares // 100
\* up to 10 contracts, and 10 for 1000 shares or more.
C9_QtyIsSharesOver100Capped ==
    (outcome # NotCalled /\ Returned /\ shares >= 100) =>
        \A i \in 1..Len(outcome.recs) :
            outcome.recs[i].action = "Sell Covered Call"
                => outcome.recs[i].qty
                     = (IF shares >= 1000 THEN 10 ELSE shares \div 100)

C9_Witness ==
    /\ outcome # NotCalled
    /\ Returned
    /\ shares = 1100
    /\ HasAction("Sell Covered Call")

NeutralMarket ==
    /\ market.rsi # NoneOpt
    /\ config.DIP_THRESHOLD <= market.rsi[1]
    /\ market.rsi[1] <= config.BULLISH_THRESHOLD

\* C10: in a neutral market, DIP_THRESHOLD <= RSI <= BULLISH_THRESHOLD,
\* generate_recommendations returns a list with no 'Buy Call' and no
\* 'Buy Put' record.
C10_NeutralNoSpeculation ==
    (outcome # NotCalled /\ NeutralMarket) =>
        /\ Returned
        /\ ~HasAction("Buy Call")
        /\ ~HasAction("Buy Put")

C10_Witness ==
    /\ outcome # NotCalled
    /\ market.rsi = Some(30)
    /\ market.ma50 = Some(190)
    /\ Returned
    /\ HasAction("Sell Covered Call")
    /\ shares = 525
    /\ Len(market.options_data) = 2

\* The records of the returned list with the given action and expiration.
RecsFor(a, date) ==
    SelectSeq(outcome.recs,
              LAMBDA r : r.action = a /\ r.expiration = date)

\* The risk-adjusted quantity for an expiration's premium at the strike 5
\* percent above (calls) or below (puts) the price.
ClaimedSpeculativeQty(opts, is_call) ==
    risk_adjusted_qty(
        get_value(shares, cash, positions, market.price),
        estimate_premium(opts,
                         RoundHalfEven(market.price * (IF is_call THEN 105 ELSE 95),
                                       100),
                         is_call),
        config.RISK_TOLERANCE_PCT)

BuyCallCondition(opts) ==
    /\ market.ma50 # NoneOpt /\ market.price > market.ma50[1]
    /\ market.rsi # NoneOpt /\ market.rsi[1] > config.BULLISH_THRESHOLD
    /\ ClaimedSpeculativeQty(opts, TRUE) > 0

\* What C11 says of a returned list: one 'Buy Call' record for exactly the
\* expirations whose condition holds, with strike round(price * 1.05) and the
\* risk-adjusted quantity.
BuyCallRecordsAsClaimed ==
    \A i \in 1..Len(market.options_data) :
        LET opts == market.options_data[i]
            found == RecsFor("Buy Call", opts.date)
        IN  /\ Len(found) > 0 <=> BuyCallCondition(opts)
            /\ \A k \in 1..Len(found) :
                  /\ found[k].strike = RoundHalfEven(market.price * 105, 100)
                  /\ found[k].qty = ClaimedSpeculativeQty(opts, TRUE)
                  /\ found[k].qty > 0

\* C11: generate_recommendations emits a 'Buy Call' record for an expiration
\* exactly when price > 50-day MA, RSI > BULLISH_THRESHOLD and the
\* risk-adjusted quantity for that expiration's premium is above 0; the
\* record's strike is round(price * 1.05) and its qty that quantity.
C11_BuyCallIff ==
    outcome # NotCalled => (Returned /\ BuyCallRecordsAsClaimed)

\* What remains of C11 when the call returns.
C11_BuyCallIffWhenReturned ==
    (outcome # NotCalled /\ Returned) => BuyCallRecordsAsClaimed

BuyPutCondition(opts) ==
    /\ market.rsi # NoneOpt /\ market.rsi[1] < config.DIP_THRESHOLD
    /\ ClaimedSpeculativeQty(opts, FALSE) > 0

\* C12: generate_recommendations emits a 'Buy Put' record for an expiration
\* exactly when RSI < DIP_THRESHOLD and the risk-adjusted quantity for that
\* expiration's put premium is above 0, whatever the price is against the
\* moving average; the record's strike is round(price * 0.95).
C12_BuyPutIff ==
    outcome # NotCalled =>
        \A i \in 1..Len(market.options_data) :
            LET opts == market.options_data[i]
                found == IF Returned THEN RecsFor("Buy Put", opts.date)
                         ELSE <<>>
            IN  /\ Len(found) > 0 <=> BuyPutCondition(opts)
                /\ \A k \in 1..Len(found) :
                      found[k].strike = RoundHalfEven(market.price * 95, 100)

\* A dip with the price below the moving average: puts are recommended.
C12_Witness ==
    /\ outcome # NotCalled
    /\ Returned
    /\ market.rsi = Some(25)
    /\ market.ma50 = Some(210)
    /\ Len(market.options_data) = 2
    /\ Len(RecsFor("Buy Put", ExpirationDays[2])) = 1

\* A dip and a bullish signal at once (DIP_THRESHOLD above
\* BULLISH_THRESHOLD): calls and puts are both recommended.
C12_WitnessBothSignals ==
    /\ outcome # NotCalled
    /\ Returned
    /\ HasAction("Buy Call")
    /\ HasAction("Buy Put")

\* C13: two calls of generate_recommendations with equal price, RSI, MA,
\* options chain and portfolio state return equal results, whenever each
\* call is made.
C13_PureFunction ==
    outcome # NotCalled =>
        \A t \in Todays :
            generate_recommendations([market EXCEPT !.now = t], config,
                                     shares, cash, positions) = outcome

(***************************************************************************)
(* Claims about the covered-call monitor (checked under SpecMonitor)       *)
(***************************************************************************)

BoolCount(b) == IF b THEN 1 ELSE 0

\* C14: check_alert_conditions(price, dte, price_threshold, dte_threshold)
\* returns should_alert = True if and only if price > price_threshold or
\* dte < dte_threshold, both strict, and as many reasons as conditions hold.
C14_AlertIffStrict ==
    monitor.op = "check_alert_conditions" =>
        LET price == monitor.args[1]
            dte == monitor.args[2]
            price_threshold == monitor.args[3]
            dte_threshold == monitor.args[4]
        IN  /\ monitor.result.should_alert \in BOOLEAN
            /\ monitor.result.should_alert
                  <=> (price > price_threshold \/ dte < dte_threshold)
            /\ Len(monitor.result.reasons)
                  = BoolCount(price > price_threshold)
                    + BoolCount(dte < dte_threshold)

\* Price and dte both exactly at their thresholds: no alert, no reason.
C14_Witness ==
    /\ monitor.op = "check_alert_conditions"
    /\ monitor.args = <<460, 7, 460, 7>>
    /\ monitor.result.should_alert = FALSE
    /\ monitor.result.reasons = <<>>

\* C15: send_monitor_alert calls send_email_alert exactly once when the
\* monitor data has should_alert true and returns that call's result; when
\* should_alert is false it sends no email and returns False.
C15_MonitorAlertSendsOnce ==
    (monitor.op = "send_monitor_alert" /\ monitor.data # <<>>) =>
        IF monitor.data[1].should_alert
        THEN /\ Len(smtp) = monitor.before + 1
             /\ monitor.result
                  = [kind |-> "returned", value |-> smtp[Len(smtp)].returned]
        ELSE /\ Len(smtp) = monitor.before
             /\ monitor.result = [kind |-> "returned", value |-> FALSE]

\* An alert whose email fails at login: one session, False handed back.
C15_Witness ==
    /\ monitor.op = "send_monitor_alert"
    /\ monitor.data # <<>>
    /\ monitor.data[1].should_alert
    /\ monitor.data[1].current_price = 461
    /\ monitor.before = 1
    /\ Len(smtp) = 2
    /\ \E i \in 1..Len(smtp[2].steps) :
          smtp[2].steps[i] = [step |-> "login", result |-> "raised"]
    /\ monitor.result = [kind |-> "returned", value |-> FALSE]

\* The entries of a session that are calls of the four steps.
FourSteps(session) ==
    SelectSeq(session.steps,
              LAMBDA e : e.step \in {"connect", "starttls", "login", "send_message"})

\* C16: send_email_alert never propagates an exception; it returns True only
\* after connect, starttls, login and send_message have all completed in
\* that order, returns False if any of them fails, and attempts no later
\* step after a failing one.
C16_EmailAlertNeverRaises ==
    \A n \in 1..Len(smtp) :
        LET four == FourSteps(smtp[n])
        IN  /\ smtp[n].returned \in BOOLEAN
            /\ smtp[n].returned =>
                  four = << [step |-> "connect", result |-> "ok"],
                            [step |-> "starttls", result |-> "ok"],
                            [step |-> "login", result |-> "ok"],
                            [step |-> "send_message", result |-> "ok"] >>
            /\ (\E i \in 1..Len(four) : four[i].result # "ok")
                  => smtp[n].returned = FALSE
            /\ \A i \in 1..Len(four) :
                  four[i].result # "ok" => i = Len(four)
            /\ (monitor.op = "send_email_alert" /\ n = Len(smtp))
                  => monitor.result
                       = [kind |-> "returned", value |-> smtp[n].returned]

\* starttls fails: login and send_message are not attempted, False comes back.
C16_Witness ==
    /\ monitor.op = "send_email_alert"
    /\ Len(smtp) = 1
    /\ FourSteps(smtp[1]) = << [step |-> "connect", result |-> "ok"],
                               [step |-> "starttls", result |-> "raised"] >>
    /\ monitor.result = [kind |-> "returned", value |-> FALSE]

(***************************************************************************)
(* Claims about GrokChat (checked under SpecChat)                          *)
(***************************************************************************)

\* The kinds of the strings prompt builds or passes on.
StringKinds ==
    {"reply", "no_response", "api_error", "network_error", "error_calling",
     "mock"}

\* C17: every call of prompt(x), in mock mode, on API success and on API or
\* network error alike, returns a string without raising and appends exactly
\* two entries to the history, {user, x} then {assistant, the returned
\* string}; so the history always has even length and alternates user,
\* assistant.
C17_PromptAppendsTwo ==
    /\ chat.op = "prompt" =>
          /\ chat.result.kind = "returned"
          /\ chat.result.value.kind \in StringKinds
          /\ conversation_history
               = chat.before
                 \o << [role |-> "user",
                        content |-> [kind |-> "input", text |-> chat.input]],
                       [role |-> "assistant", content |-> chat.result.value] >>
    /\ Len(conversation_history) % 2 = 0
    /\ \A i \in 1..Len(conversation_history) :
          conversation_history[i].role
            = (IF i % 2 = 1 THEN "user" ELSE "assistant")

\* The API call raised: the error text is returned and stored.
C17_Witness ==
    /\ chat.op = "prompt"
    /\ api_key
    /\ chat.result.kind = "returned"
    /\ chat.result.value.kind = "error_calling"
    /\ Len(chat.before) = 2
    /\ Len(conversation_history) = 4

RECURSIVE IsSubsequence(_, _)
\* a is b with some entries left out, the others in their order.
IsSubsequence(a, b) ==
    IF Len(a) = 0 THEN TRUE
    ELSE IF Len(b) = 0 THEN FALSE
    ELSE IF Head(a) = Head(b) THEN IsSubsequence(Tail(a), Tail(b))
    ELSE IsSubsequence(a, Tail(b))

RequestBuilt == chat.op = "prompt" /\ chat.request # <<>>

\* C18: in every chat-completions request the first message is the system
\* message, the last is the current user input, the messages in between
\* are earlier conversation entries in their original order, and the model
\* is the one passed to prompt or else the default model.
C18_RequestShape ==
    RequestBuilt =>
        LET messages == chat.request[1].messages
            n == Len(messages)
        IN  /\ n >= 2
            /\ messages[1] = SYSTEM_MESSAGE
            /\ messages[n] = [role |-> "user",
                              content |-> [kind |-> "input", text |-> chat.input]]
            /\ IsSubsequence(SubSeq(messages, 2, n - 1), chat.before)
            /\ chat.request[1].model
                 = (IF chat.model = <<>> THEN DEFAULT_MODEL ELSE chat.model[1])

\* What holds of the request instead: between the system message and the
\* current input stand the last entries of the history to which the current
\* input was already appended.
C18_RequestShapeAsBuilt ==
    RequestBuilt =>
        LET messages == chat.request[1].messages
            n == Len(messages)
            appended == Append(chat.before,
                               [role |-> "user",
                                content |-> [kind |-> "input", text |-> chat.input]])
        IN  /\ messages[1] = SYSTEM_MESSAGE
            /\ messages[n] = appended[Len(appended)]
            /\ messages[n - 1] = messages[n]
            /\ SubSeq(messages, 2, n - 1)
                 = SubSeq(appended, Len(appended) - (n - 2) + 1, Len(appended))
            /\ chat.request[1].model
                 = (IF chat.model = <<>> THEN DEFAULT_MODEL ELSE chat.model[1])

\* C19: every chat-completions request carries at most 10 messages, the
\* system message plus at most 9 others.
C19_AtMostTenMessages ==
    RequestBuilt => Len(chat.request[1].messages) <= 10

\* What holds instead: at most 11 messages.
C19_AtMostElevenMessages ==
    RequestBuilt => Len(chat.request[1].messages) <= 11

(***************************************************************************)
(* Claims about the utility functions (checked under SpecUtils)            *)
(***************************************************************************)

\* C20: risk_adjusted_qty(value, premium, tol) returns 0 when premium <= 0
\* and otherwise the integer part of (value * tol) / (premium * 100), so
\* that for non-negative inputs qty * premium * 100 never exceeds
\* value * tol; (100000, 5.0, 0.05) gives 10 and (10000, 100.0, 0.05) gives 0.
\* The tolerance is in percent, hence the second factor 100.
C20_RiskAdjustedQty ==
    /\ util.op = "risk_adjusted_qty" =>
          LET value == util.args[1]
              premium == util.args[2]
              tol == util.args[3]
              qty == util.result
              num == value * tol
              den == premium * 100 * 100
          IN  /\ qty \in Int
              /\ premium <= 0 => qty = 0
              /\ (premium > 0 /\ num >= 0)
                    => (qty * den <= num /\ num < (qty + 1) * den)
              /\ (premium > 0 /\ num < 0)
                    => (qty * den >= num /\ num > (qty - 1) * den)
              /\ (premium > 0 /\ value >= 0 /\ tol >= 0)
                    => (qty >= 0 /\ qty * premium * 100 * 100 <= value * tol)
    /\ risk_adjusted_qty(100000, 5, 5) = 10
    /\ risk_adjusted_qty(10000, 100, 5) = 0

\* A quotient that is no integer: 100000 * 0.05 / (3 * 100) = 16.67 is cut
\* to 16.
C20_Witness ==
    /\ util.op = "risk_adjusted_qty"
    /\ util.args = <<100000, 3, 5>>
    /\ util.result = 16

\* The table estimate_premium reads in the last call.
PremiumTable ==
    IF util.args[3] THEN util.args[1].calls ELSE util.args[1].puts

\* C21: estimate_premium returns the lastPrice of the row of the calls table
\* (the puts table when is_call is false) whose strike is nearest the
\* requested strike, the earlier row winning a tie in distance, and 0 when
\* the table is empty.
C21_EarlierRowWinsTie ==
    util.op = "estimate_premium" =>
        LET df == PremiumTable
            strike == util.args[2]
        IN  IF Len(df) = 0 THEN util.result = 0
            ELSE \E i \in ClosestRows(df, strike) :
                    /\ \A j \in ClosestRows(df, strike) : i <= j
                    /\ util.result = df[i].lastPrice

\* What holds in every build: the price is that of a row at the least
\* distance, and 0 for an empty table.
C21_NearestStrikeRow ==
    util.op = "estimate_premium" =>
        LET df == PremiumTable
        IN  IF Len(df) = 0 THEN util.result = 0
            ELSE \E i \in ClosestRows(df, util.args[2]) :
                    util.result = df[i].lastPrice

\* C22: whichever way the configuration was loaded, project_yield finds the
\* 2025 projection and returns a number; under the defaults
\* project_yield(200.0, 0.33, 5) is positive.
C22_ProjectYieldReturns ==
    util.op = "project_yield" =>
        /\ util.result.kind = "returned"
        /\ (util.args[1].kind = "absent" /\ util.args[2] = 200
            /\ util.args[3] = 33 /\ util.args[4] = 5) => util.result.value > 0

\* What holds instead: the call returns exactly when the file held a JSON
\* object (here one that leaves the default projections in place), the only
\* path on which the keys are made integers.
C22_ReturnsIffObjectLoaded ==
    util.op = "project_yield" =>
        (util.result.kind = "returned" <=> util.args[1].kind = "object")

\* C23: get_latest_portfolio_snapshot returns the snapshot saved most
\* recently (None when none was saved), for every sequence of saves, saves in
\* the same second included.
C23_LatestIsLastSaved ==
    IF Len(db.portfolio_snapshots) = 0
    THEN get_latest_portfolio_snapshot(db) = NoneOpt
    ELSE get_latest_portfolio_snapshot(db)
            = Some(db.portfolio_snapshots[Len(db.portfolio_snapshots)])

\* What holds instead: the snapshot returned carries the greatest timestamp,
\* and is the last saved when no two snapshots share a timestamp.
C23_LatestHasGreatestTimestamp ==
    LET snaps == db.portfolio_snapshots
        latest == get_latest_portfolio_snapshot(db)
    IN  Len(snaps) > 0 =>
            /\ \A i \in 1..Len(snaps) : snaps[i].timestamp <= latest[1].timestamp
            /\ (\A i, j \in 1..Len(snaps) :
                    i # j => snaps[i].timestamp # snaps[j].timestamp)
                => latest = Some(snaps[Len(snaps)])

\* The ids of a collection are positive and no two records share one.
IdsValid(records) ==
    /\ \A i \in 1..Len(records) : records[i].id > 0
    /\ \A i, j \in 1..Len(records) : i # j => records[i].id # records[j].id

\* C24: in every state reachable from an empty store by the add, update and
\* delete operations of PortfolioDB, the ids in each collection are positive
\* and pairwise distinct.
C24_IdsPositiveDistinct ==
    /\ IdsValid(db.portfolio_snapshots)
    /\ IdsValid(db.transactions)
    /\ IdsValid(db.options_positions)
    /\ IdsValid(db.stock_positions)

\* Three options positions were added one after the other.
C24_Witness ==
    /\ dbcall.n = 3
    /\ dbcall.op = "add_options_position"
    /\ Len(db.options_positions) = 3

\* C25: an id returned by add_options_position is never returned again by a
\* later add_options_position, whatever deletes happen in between.
C25_IdNeverReturnedAgain ==
    \A i, j \in 1..Len(returned_ids) :
        i # j => returned_ids[i] # returned_ids[j]

\* What holds instead: an id is returned again only after the position that
\* carried it was deleted, so it differs from every id still stored.
C25_IdNotInUse ==
    dbcall.op = "add_options_position" =>
        \A i \in 1..(Len(db.options_positions) - 1) :
            db.options_positions[i].id # dbcall.result[1]

\* C26: in every state reachable by add_options_position and
\* update_options_position, a position has closed_at set exactly when its
\* status is closed, assigned or expired, and every position returned by
\* get_open_options_positions has closed_at None.
C26_ClosedAtIffClosed ==
    /\ \A i \in 1..Len(db.options_positions) :
        LET p == db.options_positions[i]
        IN  p.closed_at # NoneOpt <=> p.status \in CLOSING_STATUSES
    /\ LET open == get_open_options_positions(db, "TSLA")
       IN  \A i \in 1..Len(open) : open[i].closed_at = NoneOpt

\* What holds instead: a position in one of the closing statuses has
\* closed_at set (the converse fails after the position is opened again).
C26_ClosedHasClosedAt ==
    \A i \in 1..Len(db.options_positions) :
        LET p == db.options_positions[i]
        IN  p.status \in CLOSING_STATUSES => p.closed_at # NoneOpt

\* A position with the id is stored.
Stored(d, position_id) ==
    \E i \in 1..Len(d.options_positions) :
        d.options_positions[i].id = position_id

\* C27: delete_options_position(id) returns True exactly when a position
\* with that id was stored, and then removes that position and nothing else;
\* otherwise it returns False and the document is unchanged.
\* update_options_position with an id that is not stored changes no record.
C27_DeleteAndUnknownUpdate ==
    [][ /\ (dbcall'.n = dbcall.n + 1 /\ dbcall'.op = "delete_options_position")
            => LET position_id == dbcall'.args[1]
               IN  /\ dbcall'.result = Some(Stored(db, position_id))
                   /\ IF Stored(db, position_id)
                      THEN db' = [db EXCEPT !.options_positions =
                                    SelectSeq(@, LAMBDA p : p.id # position_id)]
                      ELSE db' = db
        /\ (/\ dbcall'.n = dbcall.n + 1
            /\ dbcall'.op = "update_options_position"
            /\ ~Stored(db, dbcall'.args[1]))
            => db' = db
      ]_vars

\* Of two stored positions the second was deleted: the first remains.
C27_Witness ==
    /\ dbcall.n = 3
    /\ dbcall.op = "delete_options_position"
    /\ dbcall.args = <<2>>
    /\ dbcall.result = Some(TRUE)
    /\ Len(db.options_positions) = 1
    /\ db.options_positions[1].id = 1

\* Portfolio(shares, cash) constructed anew over the ledger as it is now has
\* the shares and the cash of the live object.
ReloadMatchesLive ==
    /\ \A sh \in InitialShares : PortfolioShares(sh, db, TRUE) = shares
    /\ PortfolioCash(cash0, db, TRUE) = cash

\* C28: with the ledger enabled, after any sequence of add_position,
\* update_shares and save_snapshot calls, a newly constructed Portfolio
\* loading from the same ledger has the same shares and cash as the live
\* object.
C28_ReloadMatchesLive == use_db => ReloadMatchesLive

\* The same for the sequences in which every call is an add_position that
\* did write its position to the ledger.
C28_ReloadAfterSavedPositions ==
    (/\ use_db
     /\ Len(positions) = Len(calls)
     /\ \A i \in 1..Len(positions) : positions[i].db_id # NoneOpt)
        => ReloadMatchesLive

\* Every 'Sell Cash-Secured Put' record of the returned list satisfies P.
EveryPutRec(P(_)) ==
    (outcome # NotCalled /\ Returned) =>
        \A i \in 1..Len(outcome.recs) :
            outcome.recs[i].action = "Sell Cash-Secured Put"
                => P(outcome.recs[i])

\* cash >= WHEEL_MIN_CASH_RATIO * strike * 100 * qty, the ratio in percent.
CoversAtRatio(r) ==
    cash * 100 >= config.WHEEL_MIN_CASH_RATIO_PCT * r.strike * 100 * r.qty

\* C29: every 'Sell Cash-Secured Put' recommendation is collateralised with
\* the configured margin, cash >= WHEEL_MIN_CASH_RATIO * strike * 100 * qty,
\* with 1 <= qty <= 10, so its required_cash never exceeds the portfolio's
\* cash; none is emitted when cash cannot cover one contract.
C29_PutsCollateralised ==
    EveryPutRec(LAMBDA r :
        /\ CoversAtRatio(r)
        /\ 1 <= r.qty /\ r.qty <= 10
        /\ r.required_cash <= cash
        /\ cash * 100 >= config.WHEEL_MIN_CASH_RATIO_PCT * r.strike * 100)

\* What holds for every configured ratio: the margin inequality and the
\* bounds on qty; required_cash is within the cash when the ratio is at
\* least 100 percent, as it is by default.
C29_PutsCoverConfiguredRatio ==
    EveryPutRec(LAMBDA r :
        /\ CoversAtRatio(r)
        /\ 1 <= r.qty /\ r.qty <= 10
        /\ r.required_cash = r.strike * 100 * r.qty
        /\ config.WHEEL_MIN_CASH_RATIO_PCT >= 100 => r.required_cash <= cash)

\* C30: in every chat-completions request built by prompt(x), the current
\* input x is sent exactly once, as the final message: the messages before
\* it, after the system message, are entries the history held before this
\* prompt, and x is not among them a second time.
C30_InputSentOnce ==
    RequestBuilt =>
        LET messages == chat.request[1].messages
            n == Len(messages)
        IN  /\ n >= 2
            /\ messages[n] = UserMessage(chat.input)
            /\ SubSeq(messages, 2, n - 1) = LastN(chat.before, n - 2)

\* What holds instead: the request ends with the current input twice.
C30_InputSentTwice ==
    RequestBuilt =>
        LET messages == chat.request[1].messages
            n == Len(messages)
        IN  /\ n >= 3
            /\ messages[n] = UserMessage(chat.input)
            /\ messages[n - 1] = UserMessage(chat.input)
            /\ SubSeq(messages, 2, n - 2) = LastN(chat.before, n - 3)

=============================================================================
